---- MODULE Spec2Model ----
(***************************************************************************)
(* Model of analog-nest-rpc's invocation pipeline.                         *)
(*                                                                         *)
(*   Part I   bridge.ts: the Nitro plugin returned by createNestBridge,    *)
(*            its bootstrap promise, the close hook, getNestApp.           *)
(*   Part II  h3/context.ts: invokeNestAction, runGuards and               *)
(*            resolveParamDecorators.                                      *)
(*   Part III client.ts: configureRpcClient, createRpcClient and the       *)
(*            proxy's calls, with superjson and the RPC endpoint of the    *)
(*            README between the proxy and invokeNestAction.               *)
(*                                                                         *)
(* JavaScript runs each async function synchronously up to its next        *)
(* await, so every action below is one such segment.  Reactions of one     *)
(* promise run in the order in which they were registered; that order is   *)
(* kept in reactions and in the microtask queue.                           *)
(***************************************************************************)
EXTENDS Integers, Sequences, FiniteSets, TLC

(***************************************************************************)
(* Bounds of the model.                                                    *)
(***************************************************************************)
\* Number of plugin invocations (each slot is one call of the plugin).
NInv == 3

Invs == 1..NInv
\* Every build is started by a distinct invocation, so builds are 1..NInv.
Builds == 1..NInv

(***************************************************************************)
(* Part I: bridge.ts                                                       *)
(***************************************************************************)

\* JavaScript's undefined in a slot of globalThis.
Undefined == 0

\* Keys of globalThis are kept as sequences of chunks whose last characters
\* are single chunks, so that the regular expression /__$/ can be applied.
DefaultGlobalKey == <<"__NEST_APP_CTX", "_", "_">>

\* bridge.ts:53  globalKey.replace(/__$/, "") + "_PROMISE__"
StripTrailing(k) ==
    IF Len(k) >= 2 /\ k[Len(k)] = "_" /\ k[Len(k) - 1] = "_"
    THEN SubSeq(k, 1, Len(k) - 2)
    ELSE k

promiseKey(k) == StripTrailing(k) \o <<"_PROMISE", "_", "_">>

\* The globalKey options of the bridges of the model.
BridgeKeys == {DefaultGlobalKey}

\* bridge.ts:50  a globalKey option that does not end in two underscores.
ShortGlobalKey == <<"__NEST_APP_CTX">>

\* bridge.ts:50  a globalKey option that shares nothing with the default one.
OtherGlobalKey == <<"__OTHER_CTX", "_", "_">>

\* The globalKey options of several bridges installed side by side.
ConfiguredKeys == {DefaultGlobalKey, ShortGlobalKey, OtherGlobalKey}

GlobalSlots ==
    LET keys == BridgeKeys \cup ConfiguredKeys
    IN  keys \cup {promiseKey(k) : k \in keys}

VARIABLES
    globalThis,     \* slot -> Undefined, an app (at a globalKey) or a promise (at a promiseKey)
    globalKey,      \* invocation -> the globalKey of the bridge whose plugin it calls
    pc,             \* invocation -> position in the plugin's async function
    awaited,        \* invocation -> the promise it awaits (existingPromise / bootstrapPromise)
    thrown,         \* invocation -> the build whose error it threw (0: none)
    buildCount,     \* number of bootstrap promises created so far
    stage,          \* build -> "none" | "create" | "init" | "done" | "failed"
    reactions,      \* build -> invocations awaiting its pending promise, in registration order
    microtasks,     \* continuations ready to run, in order
    hook,           \* build -> "none" | "registered" | "closing" | "done" | "failed"  (the close hook of its app)
    closed,         \* build -> its app.close() has been called
    starter,        \* history: build -> the invocation that started it
    everStored,     \* history: build -> its app has been stored at its globalKey
    wave,           \* history: invocations that began before any invocation completed
    failedBefore,   \* history: invocation -> builds whose starter had already thrown when it began
    cleared,        \* history: build -> the failure handler of its starter has run
    buildsBefore,   \* history: invocation -> number of builds started before it began
    hooked          \* invocation -> the builds whose close hook it registered on its nitroApp, in order

bridgeVars == <<globalThis, globalKey, pc, awaited, thrown, buildCount, stage,
                reactions, microtasks, hook, closed, starter, everStored, wave,
                failedBefore, cleared, buildsBefore, hooked>>

\* The state of the calls of invokeNestAction (Part II).
VARIABLES
    cpc,            \* call -> position in invokeNestAction
    ctl,            \* call -> ControllerClass
    method,         \* call -> methodName
    contextId,      \* call -> the context id it minted (0: none yet)
    nextContextId,  \* ContextIdFactory: the next fresh context id
    requestOf,      \* context id -> the call whose event is registered as its REQUEST (0: none)
    gi,             \* call -> index in allGuards of the guard being resolved or checked
    outcome,        \* call -> how invokeNestAction ended
    trace,          \* history: call -> what the call did, in order
    rpcArgs,        \* call -> the caller's argument list
    handlerArgs,    \* call -> the argument list the handler was called with
    produced,       \* history: call -> what the handler itself returned or threw
    user,           \* adapted request -> its user field (NoRequest: not created yet)
    observed        \* history: call -> the user values its guards and extractors read, in order

\* What only the binding and the handler of a call touch.
argVars == <<rpcArgs, handlerArgs, produced>>

\* The adapted requests and what was read from them.
reqVars == <<user, observed>>

invokeVars == <<cpc, ctl, method, contextId, nextContextId, requestOf, gi,
                outcome, trace, argVars, reqVars>>

\* The inputs and the result of one application of resolveParamDecorators.
VARIABLES
    bMetadata,      \* ROUTE_ARGS_METADATA of the method, in key order
    bRpcArgs,       \* the caller's argument list
    bCalled,        \* resolveParamDecorators has been applied to them
    bResolved       \* the list it returned

bindVars == <<bMetadata, bRpcArgs, bCalled, bResolved>>

\* The state of the RPC client (Part III).
VARIABLES
    globalOptions,  \* client.ts:28  the module's global options
    configCount,    \* number of calls of configureRpcClient so far
    proxy,          \* what the closure of the proxy holds (client.ts:62-69), and
                    \* history: the options and the environment it was created with
    configured,     \* history: the objects given to configureRpcClient, in order
    window,         \* globalThis.window is defined
    rpcPc,          \* call -> position in the proxy's async function
    rpcProp,        \* call -> the member read on the proxy
    callArgs,       \* call -> the arguments given to the member
    serverAt,       \* history: call -> no window was defined when it was made
    globalAt,       \* history: call -> the global options when it was made
    sent,           \* call -> the requests it gave to fetchFn, in order
    serverArgs,     \* call -> the arguments the RPC endpoint decoded
    handlerResult,  \* call -> the result the handler gave to the RPC endpoint
    response,       \* call -> the response of its exchange
    rpcResult,      \* call -> the value the call returned
    rpcError,       \* call -> the error the call failed with
    decoded         \* history: call -> the response body was parsed and decoded

optionVars == <<globalOptions, configCount, proxy, configured>>

callVars == <<window, rpcPc, rpcProp, callArgs, serverAt, globalAt, sent, serverArgs,
              handlerResult, response, rpcResult, rpcError, decoded>>

clientVars == <<optionVars, callVars>>

vars == <<bridgeVars, invokeVars, bindVars, clientVars>>

Completed(i) == pc[i] \in {"returned", "threw"}

\* The promise of build b: pending until the async IIFE of bridge.ts:78-86 ends.
PromiseState(b) ==
    CASE stage[b] \in {"create", "init"} -> "pending"
      [] stage[b] = "done" -> "fulfilled"
      [] stage[b] = "failed" -> "rejected"
      [] OTHER -> "none"

\* `await p`: register on a pending promise, or queue at once on a settled one.
AwaitPromise(i, b) ==
    IF PromiseState(b) = "pending"
    THEN /\ reactions' = [reactions EXCEPT ![b] = Append(@, i)]
         /\ microtasks' = microtasks
    ELSE /\ microtasks' = Append(microtasks, i)
         /\ reactions' = reactions

\* History kept at the start of every invocation.
BeginHistory(i) ==
    /\ wave' = IF \E j \in Invs : Completed(j) THEN wave ELSE wave \cup {i}
    /\ failedBefore' = [failedBefore EXCEPT ![i] =
            {b \in 1..buildCount : cleared[b]}]
    /\ buildsBefore' = [buildsBefore EXCEPT ![i] = buildCount]

BridgeInit(keys) ==
    /\ globalThis = [s \in GlobalSlots |-> Undefined]
    /\ globalKey \in [Invs -> keys]
    /\ pc = [i \in Invs |-> "idle"]
    /\ awaited = [i \in Invs |-> 0]
    /\ thrown = [i \in Invs |-> 0]
    /\ buildCount = 0
    /\ stage = [b \in Builds |-> "none"]
    /\ reactions = [b \in Builds |-> <<>>]
    /\ microtasks = <<>>
    /\ hook = [b \in Builds |-> "none"]
    /\ closed = [b \in Builds |-> FALSE]
    /\ starter = [b \in Builds |-> 0]
    /\ everStored = [b \in Builds |-> FALSE]
    /\ wave = {}
    /\ failedBefore = [i \in Invs |-> {}]
    /\ cleared = [b \in Builds |-> FALSE]
    /\ buildsBefore = [i \in Invs |-> 0]
    /\ hooked = [i \in Invs |-> <<>>]

\* bridge.ts:59-64  the environment is already stored: return.
PluginAlreadyInitialized(i) ==
    /\ pc[i] = "idle"
    /\ globalThis[globalKey[i]] # Undefined
    /\ pc' = [pc EXCEPT ![i] = "returned"]
    /\ BeginHistory(i)
    /\ UNCHANGED <<globalThis, globalKey, awaited, thrown, buildCount, stage,
                   reactions, microtasks, hook, closed, starter, everStored, cleared,
                   hooked, invokeVars, bindVars, clientVars>>

\* bridge.ts:66-71  a bootstrap promise is published: await it.
PluginAwaitExisting(i) ==
    /\ pc[i] = "idle"
    /\ globalThis[globalKey[i]] = Undefined
    /\ globalThis[promiseKey(globalKey[i])] # Undefined
    /\ LET b == globalThis[promiseKey(globalKey[i])] IN
        /\ awaited' = [awaited EXCEPT ![i] = b]
        /\ AwaitPromise(i, b)
    /\ pc' = [pc EXCEPT ![i] = "awaitExisting"]
    /\ BeginHistory(i)
    /\ UNCHANGED <<globalThis, globalKey, thrown, buildCount, stage,
                   hook, closed, starter, everStored, cleared,
                   hooked, invokeVars, bindVars, clientVars>>

\* The variant of the plugin that does not look at the published promise.
PluginStartBootstrap_NoPromiseCheck(i) ==
    /\ pc[i] = "idle"
    /\ globalThis[globalKey[i]] = Undefined
    /\ buildCount < NInv
    /\ LET b == buildCount + 1 IN
        /\ buildCount' = b
        /\ stage' = [stage EXCEPT ![b] = "create"]
        /\ starter' = [starter EXCEPT ![b] = i]
        /\ globalThis' = [globalThis EXCEPT ![promiseKey(globalKey[i])] = b]
        /\ awaited' = [awaited EXCEPT ![i] = b]
        /\ reactions' = [reactions EXCEPT ![b] = <<i>>]
    /\ pc' = [pc EXCEPT ![i] = "awaitBootstrap"]
    /\ BeginHistory(i)
    /\ UNCHANGED <<globalKey, thrown, microtasks, hook, closed, everStored, cleared,
                   hooked, invokeVars, bindVars, clientVars>>

\* bridge.ts:75-91  nothing stored, nothing published: start the build
\* (the async IIFE runs up to its first await), publish its promise, await it.
PluginStartBootstrap(i) ==
    /\ pc[i] = "idle"
    /\ globalThis[globalKey[i]] = Undefined
    /\ globalThis[promiseKey(globalKey[i])] = Undefined
    /\ buildCount < NInv
    /\ LET b == buildCount + 1 IN
        /\ buildCount' = b
        /\ stage' = [stage EXCEPT ![b] = "create"]
        /\ starter' = [starter EXCEPT ![b] = i]
        /\ globalThis' = [globalThis EXCEPT ![promiseKey(globalKey[i])] = b]
        /\ awaited' = [awaited EXCEPT ![i] = b]
        /\ reactions' = [reactions EXCEPT ![b] = <<i>>]
    /\ pc' = [pc EXCEPT ![i] = "awaitBootstrap"]
    /\ BeginHistory(i)
    /\ UNCHANGED <<globalKey, thrown, microtasks, hook, closed, everStored, cleared,
                   hooked, invokeVars, bindVars, clientVars>>

\* bridge.ts:79-84  NestFactory.createApplicationContext resolved; app.init() starts.
BuildCreated(b) ==
    /\ stage[b] = "create"
    /\ stage' = [stage EXCEPT ![b] = "init"]
    /\ UNCHANGED <<globalThis, globalKey, pc, awaited, thrown, buildCount,
                   reactions, microtasks, hook, closed, starter, everStored, wave,
                   failedBefore, cleared, buildsBefore,
                   hooked, invokeVars, bindVars, clientVars>>

\* bridge.ts:84-85  app.init() resolved: the bootstrap promise is fulfilled
\* and its reactions are queued in registration order.
BuildInitialized(b) ==
    /\ stage[b] = "init"
    /\ stage' = [stage EXCEPT ![b] = "done"]
    /\ microtasks' = microtasks \o reactions[b]
    /\ reactions' = [reactions EXCEPT ![b] = <<>>]
    /\ UNCHANGED <<globalThis, globalKey, pc, awaited, thrown, buildCount,
                   hook, closed, starter, everStored, wave, failedBefore, cleared, buildsBefore,
                   hooked, invokeVars, bindVars, clientVars>>

\* bridge.ts:79-84  createApplicationContext or init threw: the promise is rejected.
BuildFailed(b) ==
    /\ stage[b] \in {"create", "init"}
    /\ stage' = [stage EXCEPT ![b] = "failed"]
    /\ microtasks' = microtasks \o reactions[b]
    /\ reactions' = [reactions EXCEPT ![b] = <<>>]
    /\ UNCHANGED <<globalThis, globalKey, pc, awaited, thrown, buildCount,
                   hook, closed, starter, everStored, wave, failedBefore, cleared, buildsBefore,
                   hooked, invokeVars, bindVars, clientVars>>

\* A success continuation that forgets to store the app.
ResumeBootstrapStored_NoStore(i) ==
    /\ pc[i] = "awaitBootstrap"
    /\ PromiseState(awaited[i]) = "fulfilled"
    /\ hook' = [hook EXCEPT ![awaited[i]] = "registered"]
    /\ hooked' = [hooked EXCEPT ![i] = Append(@, awaited[i])]
    /\ pc' = [pc EXCEPT ![i] = "returned"]
    /\ UNCHANGED <<globalThis, everStored, thrown, cleared>>

\* bridge.ts:91-99  the starter resumes with the app: store it, register the close hook.
ResumeBootstrapStored(i) ==
    /\ pc[i] = "awaitBootstrap"
    /\ PromiseState(awaited[i]) = "fulfilled"
    /\ globalThis' = [globalThis EXCEPT ![globalKey[i]] = awaited[i]]
    /\ everStored' = [everStored EXCEPT ![awaited[i]] = TRUE]
    /\ hook' = [hook EXCEPT ![awaited[i]] = "registered"]
    /\ hooked' = [hooked EXCEPT ![i] = Append(@, awaited[i])]
    /\ pc' = [pc EXCEPT ![i] = "returned"]
    /\ UNCHANGED <<thrown, cleared>>

\* A failure handler that rethrows without clearing the published promise.
ResumeBootstrapFailed_KeepPromise(i) ==
    /\ pc[i] = "awaitBootstrap"
    /\ PromiseState(awaited[i]) = "rejected"
    /\ cleared' = [cleared EXCEPT ![awaited[i]] = TRUE]
    /\ thrown' = [thrown EXCEPT ![i] = awaited[i]]
    /\ pc' = [pc EXCEPT ![i] = "threw"]
    /\ UNCHANGED <<globalThis, everStored, hook, hooked>>

\* bridge.ts:100-104  the starter resumes with the error: clear the promise, rethrow.
ResumeBootstrapFailed(i) ==
    /\ pc[i] = "awaitBootstrap"
    /\ PromiseState(awaited[i]) = "rejected"
    /\ globalThis' = [globalThis EXCEPT ![promiseKey(globalKey[i])] = Undefined]
    /\ cleared' = [cleared EXCEPT ![awaited[i]] = TRUE]
    /\ thrown' = [thrown EXCEPT ![i] = awaited[i]]
    /\ pc' = [pc EXCEPT ![i] = "threw"]
    /\ UNCHANGED <<everStored, hook, hooked>>

\* A waiter that registers a close hook of its own when it resumes.
ResumeExistingFulfilled_AlsoHooks(i) ==
    /\ pc[i] = "awaitExisting"
    /\ PromiseState(awaited[i]) = "fulfilled"
    /\ hooked' = [hooked EXCEPT ![i] = Append(@, awaited[i])]
    /\ pc' = [pc EXCEPT ![i] = "returned"]
    /\ UNCHANGED <<globalThis, thrown, everStored, hook, cleared>>

\* bridge.ts:71-72  a waiter resumes after the promise was fulfilled: return.
ResumeExistingFulfilled(i) ==
    /\ pc[i] = "awaitExisting"
    /\ PromiseState(awaited[i]) = "fulfilled"
    /\ pc' = [pc EXCEPT ![i] = "returned"]
    /\ UNCHANGED <<globalThis, thrown, everStored, hook, cleared, hooked>>

\* bridge.ts:71  a waiter resumes after the promise was rejected: the await throws.
ResumeExistingRejected(i) ==
    /\ pc[i] = "awaitExisting"
    /\ PromiseState(awaited[i]) = "rejected"
    /\ thrown' = [thrown EXCEPT ![i] = awaited[i]]
    /\ pc' = [pc EXCEPT ![i] = "threw"]
    /\ UNCHANGED <<globalThis, everStored, hook, cleared, hooked>>

\* The microtask queue runs its head: the continuation of one await.
RunMicrotask ==
    /\ microtasks # <<>>
    /\ LET i == Head(microtasks) IN
        \/ ResumeBootstrapStored(i)
        \/ ResumeBootstrapFailed(i)
        \/ ResumeExistingFulfilled(i)
        \/ ResumeExistingRejected(i)
    /\ microtasks' = Tail(microtasks)
    /\ UNCHANGED <<globalKey, awaited, buildCount, stage, reactions, closed,
                   starter, wave, failedBefore, buildsBefore,
                   invokeVars, bindVars, clientVars>>

\* bridge.ts:94-96  the close hook is called: app.close() starts.
CloseHookCalled(b) ==
    /\ hook[b] = "registered"
    /\ hook' = [hook EXCEPT ![b] = "closing"]
    /\ closed' = [closed EXCEPT ![b] = TRUE]
    /\ UNCHANGED <<globalThis, globalKey, pc, awaited, thrown, buildCount, stage,
                   reactions, microtasks, starter, everStored, wave, failedBefore,
                   cleared, buildsBefore,
                   hooked, invokeVars, bindVars, clientVars>>

\* bridge.ts:96  app.close() rejected: the hook ends there, nothing is cleared.
CloseHookFailed(b) ==
    /\ hook[b] = "closing"
    /\ hook' = [hook EXCEPT ![b] = "failed"]
    /\ UNCHANGED <<globalThis, globalKey, pc, awaited, thrown, buildCount, stage,
                   reactions, microtasks, closed, starter, everStored, wave,
                   failedBefore, cleared, buildsBefore,
                   hooked, invokeVars, bindVars, clientVars>>

\* A close hook that clears the stored app and leaves the promise published.
CloseHookFinished_KeepsPromise(b) ==
    /\ hook[b] = "closing"
    /\ hook' = [hook EXCEPT ![b] = "done"]
    /\ globalThis' = [globalThis EXCEPT ![globalKey[starter[b]]] = Undefined]
    /\ UNCHANGED <<globalKey, pc, awaited, thrown, buildCount, stage,
                   reactions, microtasks, closed, starter, everStored, wave,
                   failedBefore, cleared, buildsBefore,
                   hooked, invokeVars, bindVars, clientVars>>

\* bridge.ts:97-98  app.close() resolved: both slots are cleared.
CloseHookFinished(b) ==
    /\ hook[b] = "closing"
    /\ hook' = [hook EXCEPT ![b] = "done"]
    /\ globalThis' = [globalThis EXCEPT
            ![globalKey[starter[b]]] = Undefined,
            ![promiseKey(globalKey[starter[b]])] = Undefined]
    /\ UNCHANGED <<globalKey, pc, awaited, thrown, buildCount, stage,
                   reactions, microtasks, closed, starter, everStored, wave,
                   failedBefore, cleared, buildsBefore,
                   hooked, invokeVars, bindVars, clientVars>>

\* bridge.ts:112-125  getNestApp: the stored app, or the not-initialized error.
getNestApp(k) ==
    IF globalThis[k] = Undefined THEN "throws" ELSE "returns"

BridgeNext ==
    \/ \E i \in Invs : PluginAlreadyInitialized(i)
    \/ \E i \in Invs : PluginAwaitExisting(i)
    \/ \E i \in Invs : PluginStartBootstrap(i)
    \/ \E b \in Builds : BuildCreated(b)
    \/ \E b \in Builds : BuildInitialized(b)
    \/ \E b \in Builds : BuildFailed(b)
    \/ RunMicrotask
    \/ \E b \in Builds : CloseHookCalled(b)
    \/ \E b \in Builds : CloseHookFailed(b)
    \/ \E b \in Builds : CloseHookFinished(b)

(***************************************************************************)
(* index.ts holds a createNestBridge of its own.  Its plugin looks only at *)
(* the stored environment, awaits the two steps of the build inside the    *)
(* invocation, and its close hook only closes the app.  The same variables *)
(* hold its state; it publishes no promise, so reactions and microtasks    *)
(* stay empty.                                                             *)
(***************************************************************************)

\* index.ts:75-78,92-93  the environment is already stored: return.
IndexPluginExisting(i) ==
    /\ pc[i] = "idle"
    /\ globalThis[globalKey[i]] # Undefined
    /\ pc' = [pc EXCEPT ![i] = "returned"]
    /\ BeginHistory(i)
    /\ UNCHANGED <<globalThis, globalKey, awaited, thrown, buildCount, stage,
                   reactions, microtasks, hook, closed, starter, everStored, cleared,
                   hooked, invokeVars, bindVars, clientVars>>

\* index.ts:75-82  nothing stored: call createApplicationContext and await it.
IndexPluginStartBuild(i) ==
    /\ pc[i] = "idle"
    /\ globalThis[globalKey[i]] = Undefined
    /\ buildCount < NInv
    /\ LET b == buildCount + 1 IN
        /\ buildCount' = b
        /\ stage' = [stage EXCEPT ![b] = "create"]
        /\ starter' = [starter EXCEPT ![b] = i]
        /\ awaited' = [awaited EXCEPT ![i] = b]
    /\ pc' = [pc EXCEPT ![i] = "awaitCreate"]
    /\ BeginHistory(i)
    /\ UNCHANGED <<globalThis, globalKey, thrown, reactions, microtasks, hook,
                   closed, everStored, cleared,
                   hooked, invokeVars, bindVars, clientVars>>

\* index.ts:79-84  createApplicationContext resolved: call app.init() and await it.
IndexCreated(i) ==
    /\ pc[i] = "awaitCreate"
    /\ stage' = [stage EXCEPT ![awaited[i]] = "init"]
    /\ pc' = [pc EXCEPT ![i] = "awaitInit"]
    /\ UNCHANGED <<globalThis, globalKey, awaited, thrown, buildCount,
                   reactions, microtasks, hook, closed, starter, everStored, wave,
                   failedBefore, cleared, buildsBefore,
                   hooked, invokeVars, bindVars, clientVars>>

\* index.ts:79-84  createApplicationContext or app.init() rejected: the
\* invocation throws the error; nothing was stored or published.
IndexBuildFailed(i) ==
    /\ pc[i] \in {"awaitCreate", "awaitInit"}
    /\ stage' = [stage EXCEPT ![awaited[i]] = "failed"]
    /\ thrown' = [thrown EXCEPT ![i] = awaited[i]]
    /\ pc' = [pc EXCEPT ![i] = "threw"]
    /\ UNCHANGED <<globalThis, globalKey, awaited, buildCount,
                   reactions, microtasks, hook, closed, starter, everStored, wave,
                   failedBefore, cleared, buildsBefore,
                   hooked, invokeVars, bindVars, clientVars>>

\* index.ts:84-92  app.init() resolved: store the app, register the close hook.
IndexInitialized(i) ==
    /\ pc[i] = "awaitInit"
    /\ stage' = [stage EXCEPT ![awaited[i]] = "done"]
    /\ globalThis' = [globalThis EXCEPT ![globalKey[i]] = awaited[i]]
    /\ everStored' = [everStored EXCEPT ![awaited[i]] = TRUE]
    /\ hook' = [hook EXCEPT ![awaited[i]] = "registered"]
    /\ hooked' = [hooked EXCEPT ![i] = Append(@, awaited[i])]
    /\ pc' = [pc EXCEPT ![i] = "returned"]
    /\ UNCHANGED <<globalKey, awaited, thrown, buildCount,
                   reactions, microtasks, closed, starter, wave,
                   failedBefore, cleared, buildsBefore,
                   invokeVars, bindVars, clientVars>>

\* index.ts:88-90  the close hook is called: app.close() starts.
IndexCloseHookCalled(b) ==
    /\ hook[b] = "registered"
    /\ hook' = [hook EXCEPT ![b] = "closing"]
    /\ closed' = [closed EXCEPT ![b] = TRUE]
    /\ UNCHANGED <<globalThis, globalKey, pc, awaited, thrown, buildCount, stage,
                   reactions, microtasks, starter, everStored, wave, failedBefore,
                   cleared, buildsBefore,
                   hooked, invokeVars, bindVars, clientVars>>

\* index.ts:90-91  app.close() settled: the hook ends; it clears nothing.
IndexCloseHookSettled(b) ==
    /\ hook[b] = "closing"
    /\ \E end \in {"done", "failed"} : hook' = [hook EXCEPT ![b] = end]
    /\ UNCHANGED <<globalThis, globalKey, pc, awaited, thrown, buildCount, stage,
                   reactions, microtasks, closed, starter, everStored, wave,
                   failedBefore, cleared, buildsBefore,
                   hooked, invokeVars, bindVars, clientVars>>

IndexNext ==
    \/ \E i \in Invs : IndexPluginExisting(i)
    \/ \E i \in Invs : IndexPluginStartBuild(i)
    \/ \E i \in Invs : IndexCreated(i)
    \/ \E i \in Invs : IndexBuildFailed(i)
    \/ \E i \in Invs : IndexInitialized(i)
    \/ \E b \in Builds : IndexCloseHookCalled(b)
    \/ \E b \in Builds : IndexCloseHookSettled(b)


(***************************************************************************)
(* Part II: h3/context.ts, invokeNestAction and runGuards                  *)
(***************************************************************************)

\* Number of calls of invokeNestAction (each slot is one inbound call).
NCalls == 2

Calls == 1..NCalls

\* The controller classes of the model and the guards declared on them
\* (GUARDS_METADATA of the class, in declaration order).
Controllers == {"Greeter", "Vault"}

ClassGuards ==
    [k \in Controllers |-> IF k = "Vault" THEN <<"GA", "GB">> ELSE <<>>]

\* What the instance holds under a name: a method of the prototype
\* ("method"), a function-valued property of the instance only ("ownFn"), a
\* value that is not a function ("field"), or nothing ("absent").
MemberNames == {"hello", "secret", "helper", "label"}

Member(k, m) ==
    CASE k = "Greeter" /\ m = "hello" -> "method"
      [] k = "Greeter" /\ m = "helper" -> "ownFn"
      [] k = "Greeter" /\ m = "label" -> "field"
      [] k = "Greeter" /\ m = "audit" -> "method"
      [] k = "Vault" /\ m = "secret" -> "method"
      [] m = "toString" -> "method"
      [] OTHER -> "absent"

\* Names that reach a function no class of the model marks with @Action():
\* audit, a method of Greeter without the decorator, and toString, which
\* every instance inherits from Object.prototype.
UnmarkedNames == {"audit", "toString"}

\* context.ts:254-265  the methods that carry SERVER_ACTION_METADATA.
Marked(k, m) ==
    \/ k = "Greeter" /\ m = "hello"
    \/ k = "Vault" /\ m = "secret"

\* GUARDS_METADATA of the method, in declaration order.
MethodGuards(k, m) ==
    IF k = "Vault" /\ m = "secret" THEN <<"GC">> ELSE <<>>

\* How the container answers app.resolve(GuardClass, contextId): a guard
\* registered as a provider resolves ("provider"), a guard class that is only
\* named in the guard metadata does not ("unregistered"), and a provider with
\* request-scoped dependencies may do either ("scoped").
GuardProvider(g) ==
    CASE g = "GA" -> "provider"
      [] g = "GB" -> "unregistered"
      [] OTHER -> "scoped"

\* context.ts:15-16  RouteParamtypes.REQUEST, the one built-in parameter
\* type that resolveParamDecorators binds.
REQUEST == 0

\* context.ts:19  RouteParamtypes.BODY, one of the built-in types it leaves unbound.
BODY == 3

\* parseInt of a key prefix that is not a number.
NaN == -1

\* JavaScript's undefined in a slot of an argument list.
UndefinedArg == "undefined"

\* context.ts:175-178  one entry of ROUTE_ARGS_METADATA: the parameter index,
\* whether its key holds "__customRouteArgs__", whether it has a factory,
\* parseInt of the key's prefix, and the value its factory returns.
Entry(index, custom, factory, paramType, made) ==
    [index |-> index, custom |-> custom, factory |-> factory,
     paramType |-> paramType, made |-> made]

\* ROUTE_ARGS_METADATA of the methods of the model, in key order: secret
\* takes a custom extractor at position 0 and a caller argument after it.
RouteArgsMetadata(k, m) ==
    IF k = "Vault" /\ m = "secret"
    THEN << Entry(0, TRUE, TRUE, NaN, "extracted") >>
    ELSE << >>

\* Number of custom parameter extractors (ROUTE_ARGS_METADATA factories)
\* declared on the method.
Extractors(k, m) ==
    Cardinality({j \in 1..Len(RouteArgsMetadata(k, m)) :
                    /\ RouteArgsMetadata(k, m)[j].custom
                    /\ RouteArgsMetadata(k, m)[j].factory})

\* context.ts:164-167  the highest declared index, -1 when there is none.
MaxIndex(metadata) ==
    IF Len(metadata) = 0 THEN -1
    ELSE LET S == {metadata[j].index : j \in 1..Len(metadata)}
         IN  CHOOSE x \in S : \A y \in S : y <= x

\* A binder that gives the adapted request to every built-in decorator.
Decorate_RequestForAll(entry, held, request) ==
    IF entry.custom /\ entry.factory THEN entry.made
    ELSE request

\* context.ts:180-194  what one entry puts into its slot: the factory's
\* value, the adapted request, or nothing (the slot keeps what it holds).
Decorate(entry, held, request) ==
    IF entry.custom /\ entry.factory THEN entry.made
    ELSE IF entry.paramType = REQUEST THEN request
    ELSE held

RECURSIVE ApplyDecorators(_, _, _, _)
\* context.ts:175-195  the loop over the keys of the metadata, from entry j.
\* (Position i of the JavaScript array is element i + 1 of the sequence.)
ApplyDecorators(metadata, j, resolvedArgs, request) ==
    IF j > Len(metadata) THEN resolvedArgs
    ELSE ApplyDecorators(metadata, j + 1,
            [resolvedArgs EXCEPT ![metadata[j].index + 1] =
                Decorate(metadata[j], @, request)],
            request)

RECURSIVE FillUndeclared_OverDeclared(_, _, _, _, _, _)
\* The loop of context.ts:198-202 without its test of decoratorIndices.
FillUndeclared_OverDeclared(resolvedArgs, i, rpcArgIndex, maxIndex, decoratorIndices, args) ==
    IF i > maxIndex THEN [args |-> resolvedArgs, rpcArgIndex |-> rpcArgIndex]
    ELSE IF rpcArgIndex < Len(args)
         THEN FillUndeclared_OverDeclared(
                [resolvedArgs EXCEPT ![i + 1] = args[rpcArgIndex + 1]],
                i + 1, rpcArgIndex + 1, maxIndex, decoratorIndices, args)
         ELSE FillUndeclared_OverDeclared(resolvedArgs, i + 1, rpcArgIndex, maxIndex,
                                          decoratorIndices, args)

RECURSIVE FillUndeclared(_, _, _, _, _, _)
\* context.ts:197-202  the loop that fills the slots without a decorator
\* with the caller's arguments, from position i.
FillUndeclared(resolvedArgs, i, rpcArgIndex, maxIndex, decoratorIndices, args) ==
    IF i > maxIndex THEN [args |-> resolvedArgs, rpcArgIndex |-> rpcArgIndex]
    ELSE IF i \notin decoratorIndices /\ rpcArgIndex < Len(args)
         THEN FillUndeclared(
                [resolvedArgs EXCEPT ![i + 1] = args[rpcArgIndex + 1]],
                i + 1, rpcArgIndex + 1, maxIndex, decoratorIndices, args)
         ELSE FillUndeclared(resolvedArgs, i + 1, rpcArgIndex, maxIndex,
                             decoratorIndices, args)

\* The early return of context.ts:157-159 giving an empty list.
Unbound_Empty(args) == << >>

\* context.ts:157-159  no parameter decorators: the caller's list itself.
Unbound(args) == args

\* context.ts:145-209  resolveParamDecorators.
resolveParamDecorators(metadata, args, request) ==
    IF Len(metadata) = 0 THEN Unbound(args)
    ELSE LET maxIndex == MaxIndex(metadata)
             blank == [i \in 1..(maxIndex + 1) |-> UndefinedArg]
             decoratorIndices == {metadata[j].index : j \in 1..Len(metadata)}
             decorated == ApplyDecorators(metadata, 1, blank, request)
             filled == FillUndeclared(decorated, 0, 0, maxIndex,
                                      decoratorIndices, args)
         IN  filled.args \o SubSeq(args, filled.rpcArgIndex + 1, Len(args))

\* The caller's argument lists of the calls of the model.
RpcArgLists == { << >>, <<"a", "b">> }

\* What the handler of the model returns, and the error it throws.
HandlerResults == {"v1"}

HandlerErrors == {"e1"}

\* execution-context.ts:63, 73-75  the adapted request of the call's context.
AdaptedRequest == "request"

\* execution-context.ts:9  the user field of a new adapted request: null.
NullUser == 0

\* No execution context, and so no adapted request, has been created yet.
NoRequest == -1

\* An adapted request object that all calls share.
RequestSlot_Shared(c) == 1

\* execution-context.ts:69  the constructor of the call's execution context
\* creates the adapted request: one object per call, named by the call.
RequestSlot(c) == c

\* The guards of the model whose canActivate stores the caller it found in
\* the call's event as request.user, and the value stored by call c.
GuardWrites(g) == g = "GA"

Principal(c) == c

ContextIds == 1..NCalls

NoOutcome == [kind |-> "none", src |-> ""]

\* One entry of a call's trace: what was done, on which guard (index in the
\* chain and class; 0 and "" when none) and with which context id (0 when none).
Ev(e, k, g, x) == [ev |-> e, k |-> k, g |-> g, ctx |-> x]

\* context.ts:127  a chain with the method's guards first.
allGuards_MethodFirst(k, m) == MethodGuards(k, m) \o ClassGuards[k]

\* context.ts:115-127  allGuards = [...classGuards, ...methodGuards]
allGuards(k, m) == ClassGuards[k] \o MethodGuards(k, m)

Chain(c) == allGuards(ctl[c], method[c])

\* context.ts:133 with a context id shared by all calls.
ResolveGuardEvent_StaticContext(c, k) ==
    Ev("resolveGuard", k, Chain(c)[k], 1)

\* context.ts:133  app.resolve(GuardClass, contextId, { strict: false })
ResolveGuardEvent(c, k) ==
    Ev("resolveGuard", k, Chain(c)[k], contextId[c])

\* context.ts:69 checking only that the member is present.
IsHandler_PresentOnly(k, m) == Member(k, m) # "absent"

\* context.ts:68-69  typeof handler === "function"
IsHandler(k, m) == Member(k, m) \in {"method", "ownFn"}

\* context.ts:130-133, 142-143  the loop of runGuards at guard k: resolve
\* it, or leave the loop when the chain is through.
AdvanceGuards(c, tr, k) ==
    IF k <= Len(Chain(c))
    THEN /\ trace' = [trace EXCEPT ![c] = Append(tr, ResolveGuardEvent(c, k))]
         /\ cpc' = [cpc EXCEPT ![c] = "awaitGuardResolve"]
         /\ gi' = [gi EXCEPT ![c] = k]
    ELSE /\ trace' = [trace EXCEPT ![c] = Append(tr, Ev("guardsDone", 0, "", 0))]
         /\ cpc' = [cpc EXCEPT ![c] = "awaitGuards"]
         /\ gi' = gi

\* The call ends with an error: nothing of it runs afterwards.
Fail(c, tr, kind, src) ==
    /\ trace' = [trace EXCEPT ![c] = Append(tr, Ev("throw", 0, "", 0))]
    /\ cpc' = [cpc EXCEPT ![c] = "failed"]
    /\ outcome' = [outcome EXCEPT ![c] = [kind |-> kind, src |-> src]]

InvokeInit ==
    /\ cpc = [c \in Calls |-> "idle"]
    /\ ctl = [c \in Calls |-> "Greeter"]
    /\ method = [c \in Calls |-> "hello"]
    /\ contextId = [c \in Calls |-> 0]
    /\ nextContextId = 1
    /\ requestOf = [x \in ContextIds |-> 0]
    /\ gi = [c \in Calls |-> 0]
    /\ outcome = [c \in Calls |-> NoOutcome]
    /\ trace = [c \in Calls |-> <<>>]
    /\ rpcArgs = [c \in Calls |-> <<>>]
    /\ handlerArgs = [c \in Calls |-> <<>>]
    /\ produced = [c \in Calls |-> NoOutcome]
    /\ user = [c \in Calls |-> NoRequest]
    /\ observed = [c \in Calls |-> <<>>]

\* context.ts:56 with the registration and the resolution in the wrong order.
InvokeStart_ResolveBeforeRegister(c, k, m) ==
    /\ cpc[c] = "idle"
    /\ \A d \in 1..(c - 1) : cpc[d] # "idle"
    /\ nextContextId \in ContextIds
    /\ ctl' = [ctl EXCEPT ![c] = k]
    /\ method' = [method EXCEPT ![c] = m]
    /\ contextId' = [contextId EXCEPT ![c] = nextContextId]
    /\ nextContextId' = nextContextId + 1
    /\ requestOf' = [requestOf EXCEPT ![nextContextId] = c]
    /\ trace' = [trace EXCEPT ![c] =
            << Ev("mint", 0, "", nextContextId),
               Ev("resolveTarget", 0, "", nextContextId),
               Ev("register", 0, "", nextContextId) >>]
    /\ cpc' = [cpc EXCEPT ![c] = "awaitController"]
    /\ UNCHANGED <<gi, outcome,
                   argVars, reqVars, bridgeVars, bindVars, clientVars>>

\* context.ts:55-65  mint the context id, register the event as its
\* REQUEST, ask the container for the controller in that context.
\* (Call slots are interchangeable: they are taken in order.)
InvokeStart(c, k, m) ==
    /\ cpc[c] = "idle"
    /\ \A d \in 1..(c - 1) : cpc[d] # "idle"
    /\ nextContextId \in ContextIds
    /\ ctl' = [ctl EXCEPT ![c] = k]
    /\ method' = [method EXCEPT ![c] = m]
    /\ contextId' = [contextId EXCEPT ![c] = nextContextId]
    /\ nextContextId' = nextContextId + 1
    /\ requestOf' = [requestOf EXCEPT ![nextContextId] = c]
    /\ trace' = [trace EXCEPT ![c] =
            << Ev("mint", 0, "", nextContextId),
               Ev("register", 0, "", nextContextId),
               Ev("resolveTarget", 0, "", nextContextId) >>]
    /\ cpc' = [cpc EXCEPT ![c] = "awaitController"]
    /\ UNCHANGED <<gi, outcome,
                   argVars, reqVars, bridgeVars, bindVars, clientVars>>

\* context.ts:63  app.resolve(ControllerClass, ...) rejected.
ControllerResolveFailed(c) ==
    /\ cpc[c] = "awaitController"
    /\ Fail(c, trace[c], "ResolveError", "")
    /\ UNCHANGED <<ctl, method, contextId, nextContextId, requestOf, gi,
                   argVars, reqVars, bridgeVars, bindVars, clientVars>>

\* context.ts:67-71  the named member is not a function.
HandlerNotFound(c) ==
    /\ cpc[c] = "awaitController"
    /\ ~IsHandler(ctl[c], method[c])
    /\ Fail(c, trace[c] \o << Ev("targetResolved", 0, "", 0),
                              Ev("lookup", 0, "", 0) >>,
            "HandlerNotFound", "")
    /\ UNCHANGED <<ctl, method, contextId, nextContextId, requestOf, gi,
                   argVars, reqVars, bridgeVars, bindVars, clientVars>>

\* context.ts:118-125  the handler is not a member of the prototype: the
\* read of the method's guard metadata is given undefined and throws.
GuardMetadataThrew(c) ==
    /\ cpc[c] = "awaitController"
    /\ IsHandler(ctl[c], method[c])
    /\ Member(ctl[c], method[c]) # "method"
    /\ Fail(c, trace[c] \o << Ev("targetResolved", 0, "", 0),
                              Ev("lookup", 0, "", 0),
                              Ev("guardsStart", 0, "", 0) >>,
            "MetadataError", "")
    /\ user' = [user EXCEPT ![RequestSlot(c)] = NullUser]
    /\ UNCHANGED <<ctl, method, contextId, nextContextId, requestOf, gi,
                   argVars, observed, bridgeVars, bindVars, clientVars>>

\* context.ts:67-89, 112-133  the handler is found: build the execution
\* context, enter runGuards and resolve its first guard.
HandlerFound(c) ==
    /\ cpc[c] = "awaitController"
    /\ IsHandler(ctl[c], method[c])
    /\ Member(ctl[c], method[c]) = "method"
    /\ AdvanceGuards(c, trace[c] \o << Ev("targetResolved", 0, "", 0),
                                       Ev("lookup", 0, "", 0),
                                       Ev("guardsStart", 0, "", 0) >>, 1)
    /\ user' = [user EXCEPT ![RequestSlot(c)] = NullUser]
    /\ UNCHANGED <<ctl, method, contextId, nextContextId, requestOf, outcome,
                   argVars, observed, bridgeVars, bindVars, clientVars>>

\* context.ts:133, 138  the guard is resolved in the call's context:
\* canActivate is called on it.
GuardResolved(c) ==
    /\ cpc[c] = "awaitGuardResolve"
    /\ GuardProvider(Chain(c)[gi[c]]) \in {"provider", "scoped"}
    /\ trace' = [trace EXCEPT ![c] = @ \o
            << Ev("guardResolved", gi[c], Chain(c)[gi[c]], 0),
               Ev("canActivate", gi[c], Chain(c)[gi[c]], 0) >>]
    /\ cpc' = [cpc EXCEPT ![c] = "awaitCanActivate"]
    /\ observed' = [observed EXCEPT ![c] = Append(@, user[RequestSlot(c)])]
    /\ UNCHANGED <<ctl, method, contextId, nextContextId, requestOf, gi, outcome,
                   argVars, user, bridgeVars, bindVars, clientVars>>

\* context.ts:134-138  the resolution failed: the guard class is
\* constructed directly, without injection, and canActivate is called on it.
GuardResolveFailed(c) ==
    /\ cpc[c] = "awaitGuardResolve"
    /\ GuardProvider(Chain(c)[gi[c]]) \in {"unregistered", "scoped"}
    /\ trace' = [trace EXCEPT ![c] = @ \o
            << Ev("guardResolveFailed", gi[c], Chain(c)[gi[c]], 0),
               Ev("constructGuard", gi[c], Chain(c)[gi[c]], 0),
               Ev("canActivate", gi[c], Chain(c)[gi[c]], 0) >>]
    /\ cpc' = [cpc EXCEPT ![c] = "awaitCanActivate"]
    /\ observed' = [observed EXCEPT ![c] = Append(@, user[RequestSlot(c)])]
    /\ UNCHANGED <<ctl, method, contextId, nextContextId, requestOf, gi, outcome,
                   argVars, user, bridgeVars, bindVars, clientVars>>

\* context.ts:134-136  the resolution failed and the constructor of the
\* guard class threw: nothing catches it inside the catch block.
GuardConstructThrew(c) ==
    /\ cpc[c] = "awaitGuardResolve"
    /\ GuardProvider(Chain(c)[gi[c]]) \in {"unregistered", "scoped"}
    /\ Fail(c, trace[c] \o
            << Ev("guardResolveFailed", gi[c], Chain(c)[gi[c]], 0),
               Ev("constructGuard", gi[c], Chain(c)[gi[c]], 0) >>,
            "ConstructError", Chain(c)[gi[c]])
    /\ UNCHANGED <<ctl, method, contextId, nextContextId, requestOf, gi,
                   argVars, reqVars, bridgeVars, bindVars, clientVars>>

\* context.ts:138-139, 130  canActivate gave a truthy value: next guard.
CanActivateTrue(c) ==
    /\ cpc[c] = "awaitCanActivate"
    /\ AdvanceGuards(c, Append(trace[c],
                               Ev("guardPassed", gi[c], Chain(c)[gi[c]], 0)),
                     gi[c] + 1)
    /\ user' = IF GuardWrites(Chain(c)[gi[c]])
               THEN [user EXCEPT ![RequestSlot(c)] = Principal(c)]
               ELSE user
    /\ UNCHANGED <<ctl, method, contextId, nextContextId, requestOf, outcome,
                   argVars, observed, bridgeVars, bindVars, clientVars>>

\* context.ts:139 without the throw: a falsy value lets the loop go on.
CanActivateFalse_Ignored(c) ==
    /\ cpc[c] = "awaitCanActivate"
    /\ AdvanceGuards(c, Append(trace[c],
                               Ev("guardDenied", gi[c], Chain(c)[gi[c]], 0)),
                     gi[c] + 1)
    /\ UNCHANGED <<ctl, method, contextId, nextContextId, requestOf, outcome,
                   argVars, reqVars, bridgeVars, bindVars, clientVars>>

\* context.ts:139-141  canActivate gave a falsy value: ForbiddenException.
CanActivateFalse(c) ==
    /\ cpc[c] = "awaitCanActivate"
    /\ Fail(c, Append(trace[c], Ev("guardDenied", gi[c], Chain(c)[gi[c]], 0)),
            "Forbidden", "")
    /\ UNCHANGED <<ctl, method, contextId, nextContextId, requestOf, gi,
                   argVars, reqVars, bridgeVars, bindVars, clientVars>>

\* context.ts:138 with the guard's error swallowed: the loop goes on.
CanActivateThrew_Swallowed(c) ==
    /\ cpc[c] = "awaitCanActivate"
    /\ AdvanceGuards(c, Append(trace[c],
                               Ev("guardThrew", gi[c], Chain(c)[gi[c]], 0)),
                     gi[c] + 1)
    /\ UNCHANGED <<ctl, method, contextId, nextContextId, requestOf, outcome,
                   argVars, reqVars, bridgeVars, bindVars, clientVars>>

\* context.ts:138  canActivate threw or rejected: nothing catches it, so
\* the guard's own error ends runGuards and invokeNestAction.
CanActivateThrew(c) ==
    /\ cpc[c] = "awaitCanActivate"
    /\ Fail(c, Append(trace[c], Ev("guardThrew", gi[c], Chain(c)[gi[c]], 0)),
            "GuardError", Chain(c)[gi[c]])
    /\ UNCHANGED <<ctl, method, contextId, nextContextId, requestOf, gi,
                   argVars, reqVars, bridgeVars, bindVars, clientVars>>

\* The trace entries of the custom extractors of resolveParamDecorators.
ExtractEvents(n) == [j \in 1..n |-> Ev("extract", j, "", 0)]

\* context.ts:91-101  runGuards returned: bind the parameters (every
\* extractor returns) and call the handler with the bound list.  (The
\* caller's list is not read before this point: it is drawn here.)
BindAndInvoke(c) ==
    /\ cpc[c] = "awaitGuards"
    /\ \E args \in RpcArgLists :
          /\ rpcArgs' = [rpcArgs EXCEPT ![c] = args]
          /\ handlerArgs' = [handlerArgs EXCEPT ![c] =
                resolveParamDecorators(RouteArgsMetadata(ctl[c], method[c]),
                                       args, AdaptedRequest)]
    /\ trace' = [trace EXCEPT ![c] = @
            \o << Ev("bind", 0, "", 0) >>
            \o ExtractEvents(Extractors(ctl[c], method[c]))
            \o << Ev("invoke", 0, "", 0) >>]
    /\ observed' = [observed EXCEPT ![c] = @ \o
            [j \in 1..Extractors(ctl[c], method[c]) |-> user[RequestSlot(c)]]]
    /\ cpc' = [cpc EXCEPT ![c] = "awaitHandler"]
    /\ UNCHANGED <<ctl, method, contextId, nextContextId, requestOf, gi, outcome,
                   produced, user, bridgeVars, bindVars, clientVars>>

\* context.ts:92-97, 182  a custom extractor threw: the handler is not called.
BindExtractorThrew(c) ==
    /\ cpc[c] = "awaitGuards"
    /\ Extractors(ctl[c], method[c]) > 0
    /\ \E n \in 1..Extractors(ctl[c], method[c]) :
          /\ Fail(c, trace[c] \o << Ev("bind", 0, "", 0) >> \o ExtractEvents(n),
                  "ExtractorError", "")
          /\ observed' = [observed EXCEPT ![c] = @ \o
                [j \in 1..n |-> user[RequestSlot(c)]]]
    /\ UNCHANGED <<ctl, method, contextId, nextContextId, requestOf, gi,
                   argVars, user, bridgeVars, bindVars, clientVars>>

\* context.ts:101  the handler returned or its promise was fulfilled: its
\* value is the value of invokeNestAction.
HandlerReturned(c) ==
    /\ cpc[c] = "awaitHandler"
    /\ \E v \in HandlerResults :
          /\ produced' = [produced EXCEPT ![c] = [kind |-> "value", src |-> v]]
          /\ outcome' = [outcome EXCEPT ![c] = [kind |-> "value", src |-> v]]
    /\ cpc' = [cpc EXCEPT ![c] = "done"]
    /\ trace' = [trace EXCEPT ![c] = Append(@, Ev("settled", 0, "", 0))]
    /\ UNCHANGED <<ctl, method, contextId, nextContextId, requestOf, gi,
                   rpcArgs, handlerArgs, reqVars, bridgeVars, bindVars, clientVars>>

\* context.ts:101 with the handler's error turned into a ForbiddenException.
HandlerThrew_Converted(c) ==
    /\ cpc[c] = "awaitHandler"
    /\ \E e \in HandlerErrors :
          /\ produced' = [produced EXCEPT ![c] = [kind |-> "HandlerError", src |-> e]]
          /\ Fail(c, trace[c], "Forbidden", "")
    /\ UNCHANGED <<ctl, method, contextId, nextContextId, requestOf, gi,
                   rpcArgs, handlerArgs, reqVars, bridgeVars, bindVars, clientVars>>

\* context.ts:101  the handler threw or its promise was rejected: nothing
\* catches it, so its error is the error of invokeNestAction.
HandlerThrew(c) ==
    /\ cpc[c] = "awaitHandler"
    /\ \E e \in HandlerErrors :
          /\ produced' = [produced EXCEPT ![c] = [kind |-> "HandlerError", src |-> e]]
          /\ Fail(c, trace[c], "HandlerError", e)
    /\ UNCHANGED <<ctl, method, contextId, nextContextId, requestOf, gi,
                   rpcArgs, handlerArgs, reqVars, bridgeVars, bindVars, clientVars>>

InvokeNext ==
    \/ \E c \in Calls : \E k \in Controllers : \E m \in MemberNames :
          InvokeStart(c, k, m)
    \/ \E c \in Calls : ControllerResolveFailed(c)
    \/ \E c \in Calls : HandlerNotFound(c)
    \/ \E c \in Calls : GuardMetadataThrew(c)
    \/ \E c \in Calls : HandlerFound(c)
    \/ \E c \in Calls : GuardResolved(c)
    \/ \E c \in Calls : GuardResolveFailed(c)
    \/ \E c \in Calls : GuardConstructThrew(c)
    \/ \E c \in Calls : CanActivateTrue(c)
    \/ \E c \in Calls : CanActivateFalse(c)
    \/ \E c \in Calls : CanActivateThrew(c)
    \/ \E c \in Calls : BindAndInvoke(c)
    \/ \E c \in Calls : BindExtractorThrew(c)
    \/ \E c \in Calls : HandlerReturned(c)
    \/ \E c \in Calls : HandlerThrew(c)

\* invokeNestAction called with every operation name, the names of
\* unmarked and inherited members included.
ActionsNext ==
    \/ \E c \in Calls : \E k \in Controllers :
          \E m \in MemberNames \cup UnmarkedNames : InvokeStart(c, k, m)
    \/ \E c \in Calls : ControllerResolveFailed(c)
    \/ \E c \in Calls : HandlerNotFound(c)
    \/ \E c \in Calls : GuardMetadataThrew(c)
    \/ \E c \in Calls : HandlerFound(c)
    \/ \E c \in Calls : GuardResolved(c)
    \/ \E c \in Calls : GuardResolveFailed(c)
    \/ \E c \in Calls : GuardConstructThrew(c)
    \/ \E c \in Calls : CanActivateTrue(c)
    \/ \E c \in Calls : CanActivateFalse(c)
    \/ \E c \in Calls : CanActivateThrew(c)
    \/ \E c \in Calls : BindAndInvoke(c)
    \/ \E c \in Calls : BindExtractorThrew(c)
    \/ \E c \in Calls : HandlerReturned(c)
    \/ \E c \in Calls : HandlerThrew(c)

(***************************************************************************)
(* Part III: client.ts, configureRpcClient and createRpcClient, with the   *)
(* codec (superjson) and the RPC endpoint of the README between the proxy  *)
(* and invokeNestAction.                                                   *)
(***************************************************************************)

\* Number of calls made through the proxy (each slot is one member access
\* followed by one invocation), and number of calls of configureRpcClient.
NRpc == 1

NConfig == 2

RpcCalls == 1..NRpc

SeqsUpTo(S, n) == UNION {[1..k -> S] : k \in 0..n}

\* --- JavaScript values -------------------------------------------------
\* A value is a tag, the text of a primitive, and the elements of a
\* container in order: the elements of an array or a Set, the entries of a
\* Map (pairs of a key and a value), the properties of an object in
\* insertion order (a key and one value).
Val(t, s, e) == [t |-> t, s |-> s, e |-> e]

Prim(t, s) == Val(t, s, << >>)

JsUndefined == Prim("undefined", "")

JsNull == Prim("null", "")

Str(s) == Prim("string", s)

Arr(e) == Val("array", "", e)

SetOf(e) == Val("Set", "", e)

MapOf(e) == Val("Map", "", e)

Pair(k, v) == Val("pair", "", <<k, v>>)

Obj(e) == Val("object", "", e)

Prop(key, v) == Val("prop", key, <<v>>)

\* What JSON.stringify gives for a bigint: a TypeError.
JsTypeError == Prim("TypeError", "")

RECURSIVE JSONstringify(_)
\* JSON.stringify(x), as the JSON value its text denotes (JSON.parse of the
\* text gives that value back): a Date becomes its ISO string, undefined
\* becomes null in an array and is dropped from an object, a Set and a Map
\* become {}.
JSONstringify(x) ==
    CASE x.t \in {"number", "string", "boolean", "null", "undefined"} -> x
      [] x.t = "Date" -> Str(x.s)
      [] x.t = "bigint" -> JsTypeError
      [] x.t = "array" ->
            Arr([i \in 1..Len(x.e) |->
                    IF x.e[i].t = "undefined" THEN JsNull
                    ELSE JSONstringify(x.e[i])])
      [] x.t = "object" ->
            LET Defined(p) == p.e[1].t # "undefined"
                kept == SelectSeq(x.e, Defined)
            IN  Obj([i \in 1..Len(kept) |->
                        Prop(kept[i].s, JSONstringify(kept[i].e[1]))])
      [] OTHER -> Obj(<< >>)

RECURSIVE Plain(_)
\* superjson.serialize(x).json: the value with everything JSON cannot hold
\* replaced by what stands for it (a Map by the array of its [key, value]
\* arrays, a Set by the array of its elements).
Plain(x) ==
    CASE x.t \in {"number", "string", "boolean", "null"} -> x
      [] x.t = "undefined" -> JsNull
      [] x.t \in {"bigint", "Date"} -> Str(x.s)
      [] x.t \in {"array", "Set", "Map", "pair"} ->
            Arr([i \in 1..Len(x.e) |-> Plain(x.e[i])])
      [] x.t = "prop" -> Prop(x.s, Plain(x.e[1]))
      [] OTHER -> Obj([i \in 1..Len(x.e) |-> Plain(x.e[i])])

\* A node of superjson's annotations: the type tag of the value at a path
\* ("" when it needs none) and the nodes of the paths below it.
Ann(tag, kids) == [tag |-> tag, kids |-> kids]

NoAnn == Ann("", << >>)

KidOf(m, i) == IF i <= Len(m.kids) THEN m.kids[i] ELSE NoAnn

RECURSIVE Annotations(_)
\* superjson.serialize(x).meta.values
Annotations(x) ==
    Ann(CASE x.t \in {"undefined", "bigint", "Date"} -> x.t
          [] x.t = "Set" -> "set"
          [] x.t = "Map" -> "map"
          [] OTHER -> "",
        [i \in 1..Len(x.e) |-> Annotations(x.e[i])])

\* The text of a body: JSON text (kept as the superjson result it denotes)
\* or text that is not JSON.
Text(kind, text, json, meta) ==
    [kind |-> kind, text |-> text, json |-> json, meta |-> meta]

NoValue == Prim("none", "")

PlainText(text) == Text("text", text, NoValue, NoAnn)

\* superjson.stringify(x): the text of { json, meta }.
superjsonStringify(x) ==
    Text("json", "", JSONstringify(Plain(x)), Annotations(x))

RECURSIVE Revive(_, _)
\* superjson.deserialize({ json: j, meta: { values: m } }): the annotated
\* paths are turned back, the paths below a value before the value itself.
Revive(j, m) ==
    LET below == [i \in 1..Len(j.e) |-> Revive(j.e[i], KidOf(m, i))]
    IN  CASE m.tag = "undefined" -> JsUndefined
          [] m.tag \in {"bigint", "Date"} -> Prim(m.tag, j.s)
          [] m.tag = "set" -> SetOf(below)
          [] m.tag = "map" ->
                MapOf([i \in 1..Len(below) |->
                        Pair(below[i].e[1], below[i].e[2])])
          [] OTHER -> Val(j.t, j.s, below)

\* client.ts:103 returning the parsed json without superjson's meta.
superjsonDeserialize_PlainJson(body) == body.json

\* client.ts:102-103  superjson.deserialize(await res.json())
superjsonDeserialize(body) == Revive(body.json, body.meta)

\* README, RPC endpoint  superjson.parse(data)
superjsonParse(data) == Revive(data.json, data.meta)

\* client.ts:78  superjson.stringify({ args })
Payload(args) == superjsonStringify(Obj(<< Prop("args", Arr(args)) >>))

\* README, RPC endpoint  const { args } = superjson.parse(data)
ServerArgs(body) == superjsonParse(body.data).e[1].e[1].e

\* --- Options -----------------------------------------------------------
OptionKeys == {"endpoint", "ssrEndpoint", "fetch", "headers"}

\* An options object maps every key to its value, to "undefined" when the
\* key is there with the value undefined, or to Absent when it is not there.
Absent == "absent"

UndefinedOption == "undefined"

NoOptions == [k \in OptionKeys |-> Absent]

Only(key, value) == [NoOptions EXCEPT ![key] = value]

\* client.ts:34, 62  { ...a, ...b }: every own key of b, then those of a.
Spread(a, b) == [k \in OptionKeys |-> IF b[k] # Absent THEN b[k] ELSE a[k]]

\* client.ts:63-67  a destructuring default: taken when the key is not
\* there or holds undefined.
OrDefault(o, k, d) == IF o[k] \in {Absent, UndefinedOption} THEN d ELSE o[k]

\* client.ts:64-66, 69  the defaults.
DefaultEndpoint == "/api/_nest_rpc"

DefaultSsrEndpoint == "http://localhost:5173/api/_nest_rpc"

DefaultHeaders == "{}"

GlobalFetch == "fetch"

\* The options objects given to configureRpcClient and to createRpcClient.
OptionChoices ==
    { NoOptions,
      Only("endpoint", "A"), Only("endpoint", "B"),
      Only("endpoint", UndefinedOption),
      Only("ssrEndpoint", "A"), Only("headers", "A"),
      Only("fetch", "A"), Only("fetch", UndefinedOption),
      [NoOptions EXCEPT !["endpoint"] = "B", !["ssrEndpoint"] = "B"] }

\* The options given to the proxy whose calls are followed.
CallOptionChoices ==
    { NoOptions,
      Only("endpoint", "A"),
      [NoOptions EXCEPT !["endpoint"] = "A", !["ssrEndpoint"] = "B"] }

\* --- Member names ------------------------------------------------------
\* A property key: a symbol, or a string kept as its first character and
\* the rest, so that startsWith can be applied.  "U+0275" is the letter
\* of that code point (Angular's private prefix).
Name(first, rest) == [sym |-> FALSE, name |-> <<first, rest>>]

SymbolKey == [sym |-> TRUE, name |-> <<"S", "ymbol(Symbol.iterator)">>]

\* client.ts:38-53 without "then".
IGNORED_PROPS_NoThen ==
    { <<"t", "oJSON">>, <<"t", "oString">>, <<"c", "onstructor">>,
      <<"p", "rototype">>,
      <<"n", "gOnInit">>, <<"n", "gOnDestroy">>, <<"n", "gOnChanges">>,
      <<"n", "gDoCheck">>, <<"n", "gAfterContentInit">>,
      <<"n", "gAfterContentChecked">>, <<"n", "gAfterViewInit">>,
      <<"n", "gAfterViewChecked">> }

\* client.ts:38-53
IGNORED_PROPS ==
    { <<"t", "hen">>, <<"t", "oJSON">>, <<"t", "oString">>,
      <<"c", "onstructor">>, <<"p", "rototype">>,
      <<"n", "gOnInit">>, <<"n", "gOnDestroy">>, <<"n", "gOnChanges">>,
      <<"n", "gDoCheck">>, <<"n", "gAfterContentInit">>,
      <<"n", "gAfterContentChecked">>, <<"n", "gAfterViewInit">>,
      <<"n", "gAfterViewChecked">> }

\* client.ts:72-77  the get trap: undefined, or the async function.
ProxyGet(prop) ==
    IF prop.sym THEN "undefined"
    ELSE IF prop.name[1] = "_" \/ prop.name[1] = "U+0275" THEN "undefined"
    ELSE IF prop.name \in IGNORED_PROPS THEN "undefined"
    ELSE "callable"

\* The members read on the proxy: every ignored name, the two prefixes, a
\* symbol, and names of remote methods (one of them begins like "then").
PropChoices ==
    { Name("t", "hen"), Name("t", "oJSON"), Name("t", "oString"),
      Name("c", "onstructor"), Name("p", "rototype"),
      Name("n", "gOnInit"), Name("n", "gOnDestroy"), Name("n", "gOnChanges"),
      Name("n", "gDoCheck"), Name("n", "gAfterContentInit"),
      Name("n", "gAfterContentChecked"), Name("n", "gAfterViewInit"),
      Name("n", "gAfterViewChecked"),
      Name("_", "internal"), Name("U+0275", "cmp"), SymbolKey,
      Name("h", "ello"), Name("t", "hens") }

\* --- The server of the README ------------------------------------------
\* The generated `controllers` map of the RPC endpoint.
ServerControllers == {"Greeter"}

\* The controller names given to createRpcClient.
ControllerNames == {"Greeter", "Ghost"}

Instant == Prim("Date", "2020-01-01T00:00:00.000Z")

\* The argument lists and the handler results of the calls that are followed.
CallArgLists == { <<Str("Ada")>>, <<Instant, JsUndefined>> }

ResultValues == { Str("Hello, Ada"), Instant }

NoResponse == [ok |-> FALSE, statusText |-> "", body |-> PlainText("")]

NoError == [kind |-> "none", target |-> "", prop |-> << >>,
            statusText |-> "", errorText |-> PlainText("")]

NoProxy ==
    [created |-> FALSE, controllerName |-> "", endpoint |-> "",
     ssrEndpoint |-> "", customHeaders |-> "", fetchFn |-> "",
     given |-> NoOptions, globalThen |-> NoOptions, serverThen |-> FALSE]

ClientIdle ==
    /\ globalOptions = NoOptions
    /\ configCount = 0
    /\ proxy = NoProxy
    /\ configured = << >>
    /\ window = FALSE
    /\ rpcPc = [c \in RpcCalls |-> "idle"]
    /\ rpcProp = [c \in RpcCalls |-> SymbolKey]
    /\ callArgs = [c \in RpcCalls |-> << >>]
    /\ serverAt = [c \in RpcCalls |-> FALSE]
    /\ globalAt = [c \in RpcCalls |-> NoOptions]
    /\ sent = [c \in RpcCalls |-> << >>]
    /\ serverArgs = [c \in RpcCalls |-> << >>]
    /\ handlerResult = [c \in RpcCalls |-> NoValue]
    /\ response = [c \in RpcCalls |-> NoResponse]
    /\ rpcResult = [c \in RpcCalls |-> NoValue]
    /\ rpcError = [c \in RpcCalls |-> NoError]
    /\ decoded = [c \in RpcCalls |-> FALSE]

\* client.ts:33-35  configureRpcClient
configureRpcClient(options) ==
    /\ configCount < NConfig
    /\ configCount' = configCount + 1
    /\ globalOptions' = Spread(globalOptions, options)
    /\ configured' = Append(configured, options)
    /\ UNCHANGED <<proxy, callVars, bridgeVars, invokeVars, bindVars>>

\* client.ts:62  const mergedOptions = { ...globalOptions, ...options }
mergedOptions(options) == Spread(globalOptions, options)

\* client.ts:58-71  createRpcClient: the options are merged and read once,
\* the proxy keeps what was read.
createRpcClient(controllerName, options) ==
    /\ ~proxy.created
    /\ proxy' =
        [created |-> TRUE,
         controllerName |-> controllerName,
         endpoint |-> OrDefault(mergedOptions(options), "endpoint", DefaultEndpoint),
         ssrEndpoint |-> OrDefault(mergedOptions(options), "ssrEndpoint",
                                   DefaultSsrEndpoint),
         customHeaders |-> OrDefault(mergedOptions(options), "headers",
                                     DefaultHeaders),
         fetchFn |-> OrDefault(mergedOptions(options), "fetch", GlobalFetch),
         given |-> options,
         globalThen |-> globalOptions,
         serverThen |-> ~window]
    /\ UNCHANGED <<globalOptions, configCount, configured, callVars,
                   bridgeVars, invokeVars, bindVars>>

\* globalThis.window is defined or deleted (a DOM is installed or removed).
SetWindow ==
    /\ window' = ~window
    /\ UNCHANGED <<optionVars, rpcPc, rpcProp, callArgs, serverAt, globalAt, sent,
                   serverArgs, handlerResult, response, rpcResult, rpcError,
                   decoded, bridgeVars, invokeVars, bindVars>>

\* client.ts:73-75  the member is ignored: the get trap returns undefined.
ProxyGetIgnored(c, prop) ==
    /\ proxy.created
    /\ rpcPc[c] = "idle"
    /\ \A d \in 1..(c - 1) : rpcPc[d] # "idle"
    /\ ProxyGet(prop) = "undefined"
    /\ rpcProp' = [rpcProp EXCEPT ![c] = prop]
    /\ rpcPc' = [rpcPc EXCEPT ![c] = "noCallable"]
    /\ UNCHANGED <<optionVars, window, callArgs, serverAt, globalAt, sent, serverArgs,
                   handlerResult, response, rpcResult, rpcError, decoded,
                   bridgeVars, invokeVars, bindVars>>

\* client.ts:80 with the endpoint decided when the proxy was created.
SelectUrl_AtCreation(isServer) ==
    IF proxy.serverThen THEN proxy.ssrEndpoint ELSE proxy.endpoint

\* client.ts:80  const url = isServer ? ssrEndpoint : endpoint
SelectUrl(isServer) ==
    IF isServer THEN proxy.ssrEndpoint ELSE proxy.endpoint

\* A request whose transport and headers are read from the options as they
\* are when the call is made.
Request_LiveOptions(url, prop, args) ==
    [url |-> url, method |-> "POST",
     via |-> OrDefault(Spread(globalOptions, proxy.given), "fetch", GlobalFetch),
     headers |-> [contentType |-> "application/json",
                  custom |-> OrDefault(Spread(globalOptions, proxy.given),
                                       "headers", DefaultHeaders)],
     body |-> [controller |-> proxy.controllerName, action |-> prop.name,
               data |-> Payload(args)]]

\* client.ts:82-93  the request given to fetchFn.
Request(url, prop, args) ==
    [url |-> url, method |-> "POST", via |-> proxy.fetchFn,
     headers |-> [contentType |-> "application/json",
                  custom |-> proxy.customHeaders],
     body |-> [controller |-> proxy.controllerName, action |-> prop.name,
               data |-> Payload(args)]]

\* client.ts:77-93  the member is a remote method and is called: encode
\* the arguments, choose the endpoint, start the exchange.
ProxyCall(c, prop, args) ==
    /\ proxy.created
    /\ rpcPc[c] = "idle"
    /\ \A d \in 1..(c - 1) : rpcPc[d] # "idle"
    /\ ProxyGet(prop) = "callable"
    /\ rpcProp' = [rpcProp EXCEPT ![c] = prop]
    /\ callArgs' = [callArgs EXCEPT ![c] = args]
    /\ serverAt' = [serverAt EXCEPT ![c] = ~window]
    /\ globalAt' = [globalAt EXCEPT ![c] = globalOptions]
    /\ sent' = [sent EXCEPT ![c] = Append(@, Request(SelectUrl(~window), prop, args))]
    /\ rpcPc' = [rpcPc EXCEPT ![c] = "awaitFetch"]
    /\ UNCHANGED <<optionVars, window, serverArgs, handlerResult, response,
                   rpcResult, rpcError, decoded,
                   bridgeVars, invokeVars, bindVars>>

\* client.ts:82  the exchange did not take place: fetchFn rejected.
FetchRejected(c) ==
    /\ rpcPc[c] = "awaitFetch"
    /\ rpcError' = [rpcError EXCEPT ![c] = [NoError EXCEPT !.kind = "FetchError"]]
    /\ rpcPc' = [rpcPc EXCEPT ![c] = "failed"]
    /\ UNCHANGED <<optionVars, window, rpcProp, callArgs, serverAt, globalAt, sent,
                   serverArgs, handlerResult, response, rpcResult, decoded,
                   bridgeVars, invokeVars, bindVars>>

\* README, RPC endpoint  the controller is not in the map: 404.
RouteControllerNotFound(c) ==
    /\ rpcPc[c] = "awaitFetch"
    /\ sent[c][1].body.controller \notin ServerControllers
    /\ response' = [response EXCEPT ![c] =
            [ok |-> FALSE, statusText |-> "Controller not found",
             body |-> PlainText("not-found")]]
    /\ rpcPc' = [rpcPc EXCEPT ![c] = "awaitText"]
    /\ UNCHANGED <<optionVars, window, rpcProp, callArgs, serverAt, globalAt, sent,
                   serverArgs, handlerResult, rpcResult, rpcError, decoded,
                   bridgeVars, invokeVars, bindVars>>

\* README, RPC endpoint  invokeNestAction threw (a guard denied, the handler
\* threw): the endpoint answers with an error status.
RouteInvokeThrew(c) ==
    /\ rpcPc[c] = "awaitFetch"
    /\ sent[c][1].body.controller \in ServerControllers
    /\ serverArgs' = [serverArgs EXCEPT ![c] = ServerArgs(sent[c][1].body)]
    /\ response' = [response EXCEPT ![c] =
            [ok |-> FALSE, statusText |-> "Internal Server Error",
             body |-> PlainText("server-error")]]
    /\ rpcPc' = [rpcPc EXCEPT ![c] = "awaitText"]
    /\ UNCHANGED <<optionVars, window, rpcProp, callArgs, serverAt, globalAt, sent,
                   handlerResult, rpcResult, rpcError, decoded,
                   bridgeVars, invokeVars, bindVars>>

\* README, RPC endpoint  the arguments are decoded, invokeNestAction gives
\* the handler's result r, the endpoint answers superjson.stringify(r).
RouteReturned(c, r) ==
    /\ rpcPc[c] = "awaitFetch"
    /\ sent[c][1].body.controller \in ServerControllers
    /\ serverArgs' = [serverArgs EXCEPT ![c] = ServerArgs(sent[c][1].body)]
    /\ handlerResult' = [handlerResult EXCEPT ![c] = r]
    /\ response' = [response EXCEPT ![c] =
            [ok |-> TRUE, statusText |-> "OK", body |-> superjsonStringify(r)]]
    /\ rpcPc' = [rpcPc EXCEPT ![c] = "awaitJson"]
    /\ UNCHANGED <<optionVars, window, rpcProp, callArgs, serverAt, globalAt, sent,
                   rpcResult, rpcError, decoded,
                   bridgeVars, invokeVars, bindVars>>

\* client.ts:95-103 decoding the body whatever the status.
ErrorTextRead_Decodes(c) ==
    /\ rpcPc[c] = "awaitText"
    /\ decoded' = [decoded EXCEPT ![c] = TRUE]
    /\ rpcResult' = [rpcResult EXCEPT ![c] = superjsonDeserialize(response[c].body)]
    /\ rpcPc' = [rpcPc EXCEPT ![c] = "done"]
    /\ UNCHANGED <<optionVars, window, rpcProp, callArgs, serverAt, globalAt, sent,
                   serverArgs, handlerResult, response, rpcError,
                   bridgeVars, invokeVars, bindVars>>

\* client.ts:95-100  the response is not ok: its text is read and the call
\* fails with an Error naming the method, the status text and that text.
ErrorTextRead(c) ==
    /\ rpcPc[c] = "awaitText"
    /\ rpcError' = [rpcError EXCEPT ![c] =
            [kind |-> "RpcFailed", target |-> proxy.controllerName,
             prop |-> rpcProp[c].name,
             statusText |-> response[c].statusText,
             errorText |-> response[c].body]]
    /\ rpcPc' = [rpcPc EXCEPT ![c] = "failed"]
    /\ UNCHANGED <<optionVars, window, rpcProp, callArgs, serverAt, globalAt, sent,
                   serverArgs, handlerResult, response, rpcResult, decoded,
                   bridgeVars, invokeVars, bindVars>>

\* client.ts:102-103  the response is ok: its body is parsed and decoded,
\* the decoded value is returned.
JsonRead(c) ==
    /\ rpcPc[c] = "awaitJson"
    /\ decoded' = [decoded EXCEPT ![c] = TRUE]
    /\ rpcResult' = [rpcResult EXCEPT ![c] = superjsonDeserialize(response[c].body)]
    /\ rpcPc' = [rpcPc EXCEPT ![c] = "done"]
    /\ UNCHANGED <<optionVars, window, rpcProp, callArgs, serverAt, globalAt, sent,
                   serverArgs, handlerResult, response, rpcError,
                   bridgeVars, invokeVars, bindVars>>

OptionsNext ==
    \/ \E o \in OptionChoices : configureRpcClient(o)
    \/ \E n \in ControllerNames : \E o \in OptionChoices : createRpcClient(n, o)

\* configureRpcClient before and after the proxy is created, and calls
\* through the proxy (on the server: no window is defined).
ReconfigureNext ==
    \/ \E o \in OptionChoices : configureRpcClient(o)
    \/ \E o \in CallOptionChoices : createRpcClient("Greeter", o)
    \/ \E c \in RpcCalls : ProxyCall(c, Name("h", "ello"), <<Str("Ada")>>)

ClientNext ==
    \/ \E n \in ControllerNames : \E o \in CallOptionChoices : createRpcClient(n, o)
    \/ SetWindow
    \/ \E c \in RpcCalls : \E p \in PropChoices : ProxyGetIgnored(c, p)
    \/ \E c \in RpcCalls : \E p \in PropChoices : \E a \in CallArgLists :
          ProxyCall(c, p, a)
    \/ \E c \in RpcCalls : FetchRejected(c)
    \/ \E c \in RpcCalls : RouteControllerNotFound(c)
    \/ \E c \in RpcCalls : RouteInvokeThrew(c)
    \/ \E c \in RpcCalls : \E r \in ResultValues : RouteReturned(c, r)
    \/ \E c \in RpcCalls : ErrorTextRead(c)
    \/ \E c \in RpcCalls : JsonRead(c)

\* --- The values sent through the codec ----------------------------------
\* Bound on the number of elements of an array or a Set.
MaxElems == 2

\* The primitives, with strings that read like the text of a date and of a
\* large integer, and the values JSON has no form for.
SafeLimit == "9007199254740993"

Prims ==
    { Prim("number", "1"), Prim("boolean", "true"), JsNull, JsUndefined,
      Str("a"), Str(Instant.s), Str(SafeLimit),
      Instant, Prim("bigint", SafeLimit) }

Distinct(s) == \A i, j \in 1..Len(s) : i # j => s[i] # s[j]

\* Arrays, Sets, Maps and objects over a set of values.
Containers(S) ==
    {Arr(s) : s \in SeqsUpTo(S, MaxElems)}
    \cup {SetOf(s) : s \in {q \in SeqsUpTo(S, MaxElems) : Distinct(q)}}
    \cup {MapOf(<< Pair(k, v) >>) : k \in Prims, v \in S}
    \cup {Obj(<< Prop("k", v) >>) : v \in S}
    \cup {Obj(<< Prop("k", v), Prop("m", JsUndefined) >>) : v \in S}

\* Containers of containers: one element, itself a container of primitives.
Nested ==
    {Arr(<<x>>) : x \in Containers(Prims)}
    \cup {SetOf(<<x>>) : x \in Containers(Prims)}
    \cup {MapOf(<< Pair(Str("k"), x) >>) : x \in Containers(Prims)}
    \cup {Obj(<< Prop("k", x) >>) : x \in Containers(Prims)}

CodecValues == Prims \cup Containers(Prims) \cup Nested

CodecArgLists == {<< >>} \cup {<<v>> : v \in CodecValues}

\* The handler of the codec runs: it returns its first argument.
Echo(args) == IF Len(args) = 0 THEN JsUndefined ELSE args[1]

RouteEchoed(c) ==
    /\ rpcPc[c] = "awaitFetch"
    /\ RouteReturned(c, Echo(ServerArgs(sent[c][1].body)))

CodecNext ==
    \/ createRpcClient("Greeter", NoOptions)
    \/ \E a \in CodecArgLists : ProxyCall(1, Name("h", "ello"), a)
    \/ RouteEchoed(1)
    \/ JsonRead(1)

(***************************************************************************)
(* Specifications.  The bridge, the calls of invokeNestAction, the binder   *)
(* and the client share no state: each is checked with the others at rest. *)
(***************************************************************************)
\* Bounds of the inputs of resolveParamDecorators.
MaxParamIndex == 2

MaxDecorators == 2

MaxRpcArgs == 3

ArgValues == {"a", "b"}

\* The entries a method's metadata is made of: a custom extractor, @Req(),
\* and a built-in decorator that resolveParamDecorators does not bind.
Entries ==
    {Entry(i, TRUE, TRUE, NaN, "extracted") : i \in 0..MaxParamIndex}
    \cup {Entry(i, FALSE, FALSE, REQUEST, "") : i \in 0..MaxParamIndex}
    \cup {Entry(i, FALSE, FALSE, BODY, "") : i \in 0..MaxParamIndex}

\* The keys of one metadata object are distinct.
MetadataChoices ==
    {md \in SeqsUpTo(Entries, MaxDecorators) :
        \A i, j \in 1..Len(md) : i # j => md[i] # md[j]}

BindIdle ==
    /\ bMetadata = << >>
    /\ bRpcArgs = << >>
    /\ bCalled = FALSE
    /\ bResolved = << >>

BindInit ==
    /\ bMetadata \in MetadataChoices
    /\ bRpcArgs \in SeqsUpTo(ArgValues, MaxRpcArgs)
    /\ bCalled = FALSE
    /\ bResolved = << >>

\* context.ts:92-97  one call of resolveParamDecorators.
Resolve ==
    /\ ~bCalled
    /\ bCalled' = TRUE
    /\ bResolved' = resolveParamDecorators(bMetadata, bRpcArgs, AdaptedRequest)
    /\ UNCHANGED <<bMetadata, bRpcArgs, bridgeVars, invokeVars, clientVars>>

Init == BridgeInit(BridgeKeys) /\ InvokeInit /\ BindIdle /\ ClientIdle

SpecBridge == Init /\ [][BridgeNext]_vars

\* Bridges with different globalKey options on one globalThis.
InitKeys == BridgeInit(ConfiguredKeys) /\ InvokeInit /\ BindIdle /\ ClientIdle

SpecKeys == InitKeys /\ [][BridgeNext]_vars

\* The plugin of index.ts in place of the plugin of bridge.ts.
SpecIndex == Init /\ [][IndexNext]_vars

SpecInvoke == Init /\ [][InvokeNext]_vars

SpecActions == Init /\ [][ActionsNext]_vars

InitBind == BridgeInit(BridgeKeys) /\ InvokeInit /\ BindInit /\ ClientIdle

SpecBind == InitBind /\ [][Resolve]_vars

SpecOptions == Init /\ [][OptionsNext]_vars

SpecReconfigure == Init /\ [][ReconfigureNext]_vars

SpecClient == Init /\ [][ClientNext]_vars

SpecCodec == Init /\ [][CodecNext]_vars

(***************************************************************************)
(* Claims about the bridge, checked under SpecBridge.                      *)
(***************************************************************************)

\* The builds started by invocations of the first wave.
WaveBuilds == {b \in 1..buildCount : starter[b] \in wave}

\* C1: invocations of the plugin that begin before any invocation has
\* completed start the build exactly once, all await that one promise, and
\* all end alike: each returns only after the app of that build was stored,
\* or each throws the error of that build.
C1_ConcurrentBootstrapOnce ==
    /\ wave # {} => Cardinality(WaveBuilds) = 1
    /\ \A i \in wave : awaited[i] \in WaveBuilds
    /\ \A i, j \in wave :
          Completed(i) /\ Completed(j) => pc[i] = pc[j] /\ thrown[i] = thrown[j]
    /\ \A i \in wave : pc[i] = "returned" => everStored[awaited[i]]
    /\ \A i \in wave : pc[i] = "threw" => thrown[i] = awaited[i]

\* Witness of C1: all invocations were concurrent and all have returned.
C1_Witness ==
    /\ wave = Invs
    /\ \A i \in Invs : pc[i] = "returned"

\* C5 (state part): every invocation that awaited a failed build, starter or
\* waiter, ended by throwing that build's error; the app of a failed build
\* was never stored; once the failure handler ran the failed promise is no
\* longer published.
C5_FailureState ==
    /\ \A i \in Invs :
          Completed(i) /\ awaited[i] # 0 /\ stage[awaited[i]] = "failed"
             => pc[i] = "threw" /\ thrown[i] = awaited[i]
    /\ \A b \in Builds : stage[b] = "failed" =>
          /\ ~everStored[b]
          /\ globalThis[globalKey[starter[b]]] # b
    /\ \A b \in Builds : cleared[b] =>
          globalThis[promiseKey(globalKey[starter[b]])] # b

\* C5 (step part): the step in which the starter handles the failure leaves
\* the pending handle cleared and the stored-environment slot as it was.
C5_FailureStep ==
    \A i \in Invs :
        pc[i] = "awaitBootstrap" /\ pc'[i] = "threw" =>
            /\ globalThis'[promiseKey(globalKey[i])] = Undefined
            /\ globalThis'[globalKey[i]] = globalThis[globalKey[i]]

\* C5: a failed build is re-raised to its starter and to every waiter, the
\* pending handle is cleared and the stored-environment slot is untouched.
C5_BootstrapFailureClearsOnlyPending ==
    []C5_FailureState /\ [][C5_FailureStep]_vars

\* Witness of C5: a build failed, its starter and a waiter both threw its
\* error, and the pending handle is cleared.
C5_Witness ==
    \E b \in Builds : \E i, j \in Invs :
        /\ i # j
        /\ starter[b] = i /\ awaited[j] = b
        /\ pc[i] = "threw" /\ pc[j] = "threw"
        /\ thrown[i] = b /\ thrown[j] = b
        /\ globalThis[promiseKey(globalKey[i])] = Undefined

\* An invocation that began when the latest bootstrap attempt had failed and
\* its failure had been handled.
BeganAfterFailure(i) ==
    pc[i] # "idle" /\ buildsBefore[i] \in failedBefore[i]

\* C6: an invocation that begins after the latest attempt failed starts a new
\* build, exactly one; when it returns, the app of that build has been stored;
\* no invocation awaits or throws the error of an attempt that had already
\* failed when it began.
C6_RetryAfterFailure ==
    /\ \A i \in Invs : BeganAfterFailure(i) =>
          /\ awaited[i] = buildsBefore[i] + 1
          /\ {b \in 1..buildCount : starter[b] = i} = {awaited[i]}
          /\ pc[i] = "returned" => everStored[awaited[i]]
    /\ \A i \in Invs :
          awaited[i] \notin failedBefore[i] /\ thrown[i] \notin failedBefore[i]

\* Witness of C6: the first build failed, the next invocation started the
\* second build, which succeeded, and its app is stored.
C6_Witness ==
    \E i \in Invs :
        /\ BeganAfterFailure(i)
        /\ pc[i] = "returned"
        /\ thrown[i] = 0
        /\ globalThis[globalKey[i]] = awaited[i]
        /\ \E j \in Invs : pc[j] = "threw" /\ thrown[j] \in failedBefore[i]

(***************************************************************************)
(* Claims about invokeNestAction, checked under SpecInvoke.                *)
(***************************************************************************)

\* The call's trace holds an entry of kind e.
HasEv(c, e) == \E n \in 1..Len(trace[c]) : trace[c][n].ev = e

\* The guard chain a call must run, as the claims state it: the guards of
\* the class in declaration order, then those of the method.
ClaimedChain(c) == ClassGuards[ctl[c]] \o MethodGuards(ctl[c], method[c])

GuardEvs == {"resolveGuard", "guardResolved", "guardResolveFailed",
             "constructGuard", "canActivate", "guardPassed", "guardDenied",
             "guardThrew"}

IsGuardEv(e) == e.ev \in GuardEvs

\* What the call did with its guards, in order.
GuardTrace(c) == SelectSeq(trace[c], IsGuardEv)

Ended(c) == cpc[c] \in {"done", "failed"}

\* C2: a guard whose resolution fails denies the call: ForbiddenException,
\* no guard constructed without injection, no handler invoked.
C2_GuardResolutionFailureDenies ==
    \A c \in Calls : HasEv(c, "guardResolveFailed") =>
        /\ ~HasEv(c, "constructGuard")
        /\ ~HasEv(c, "invoke")
        /\ Ended(c) => outcome[c].kind = "Forbidden"

\* C3: the handler is invoked only if canActivate was called on every guard
\* of the chain and every one gave a truthy value; once a guard denies, the
\* binder, its extractors and the handler do not run.
C3_HandlerOnlyAfterAllGuardsPass ==
    \A c \in Calls :
        /\ (HasEv(c, "invoke") \/ HasEv(c, "bind")) =>
              \A k \in 1..Len(ClaimedChain(c)) :
                  /\ \E n \in 1..Len(trace[c]) :
                        trace[c][n] = Ev("canActivate", k, ClaimedChain(c)[k], 0)
                  /\ \E n \in 1..Len(trace[c]) :
                        trace[c][n] = Ev("guardPassed", k, ClaimedChain(c)[k], 0)
        /\ (HasEv(c, "guardDenied") \/ HasEv(c, "guardThrew")) =>
              /\ ~HasEv(c, "bind")
              /\ ~HasEv(c, "extract")
              /\ ~HasEv(c, "invoke")
              /\ cpc[c] = "failed"

\* Witness of C3: one call invoked its handler behind three guards, another
\* was denied by a guard.
C3_Witness ==
    \E c, d \in Calls :
        /\ Len(ClaimedChain(c)) = 3 /\ HasEv(c, "invoke")
        /\ HasEv(d, "guardDenied") /\ cpc[d] = "failed"

\* The place of an entry in the handling of one guard.
GuardRank(e) ==
    CASE e.ev = "resolveGuard" -> 1
      [] e.ev \in {"guardResolved", "guardResolveFailed"} -> 2
      [] e.ev = "constructGuard" -> 3
      [] e.ev = "canActivate" -> 4
      [] OTHER -> 5

\* C4: the guards of a call are handled one at a time in the order class
\* guards, then method guards, each level in declaration order; a guard is
\* resolved only after the check of the previous one passed; after the first
\* guard that denies (or throws) no guard is resolved or checked.
C4_GuardOrderAndShortCircuit ==
    \A c \in Calls :
        LET gt == GuardTrace(c)
            ch == ClaimedChain(c)
        IN  /\ gt # <<>> => gt[1].ev = "resolveGuard" /\ gt[1].k = 1
            /\ \A n \in 1..Len(gt) :
                  /\ gt[n].k \in 1..Len(ch)
                  /\ gt[n].g = ch[gt[n].k]
                  /\ gt[n].ev \in {"guardDenied", "guardThrew"} => n = Len(gt)
            /\ \A n \in 1..(Len(gt) - 1) :
                  \/ /\ gt[n + 1].k = gt[n].k
                     /\ GuardRank(gt[n]) < GuardRank(gt[n + 1])
                  \/ /\ gt[n + 1].k = gt[n].k + 1
                     /\ gt[n].ev = "guardPassed"
                     /\ gt[n + 1].ev = "resolveGuard"
            /\ \A n \in 1..Len(gt) :
                  gt[n].ev = "canActivate" =>
                      \E p \in 1..(n - 1) :
                          gt[p] = Ev("resolveGuard", gt[n].k, gt[n].g, contextId[c])

\* Witness of C4: the first class guard passed, the second denied, and the
\* method guard was never resolved.
C4_Witness ==
    \E c \in Calls :
        /\ Len(ClaimedChain(c)) = 3
        /\ \E n \in 1..Len(trace[c]) : trace[c][n] = Ev("guardPassed", 1, "GA", 0)
        /\ \E n \in 1..Len(trace[c]) : trace[c][n] = Ev("guardDenied", 2, "GB", 0)
        /\ cpc[c] = "failed"

\* The step of the pipeline an entry belongs to; a throw ends the call.
Phase(e) ==
    CASE e.ev = "mint" -> 1
      [] e.ev = "register" -> 2
      [] e.ev \in {"resolveTarget", "targetResolved"} -> 3
      [] e.ev = "lookup" -> 4
      [] e.ev \in GuardEvs \cup {"guardsStart", "guardsDone"} -> 5
      [] e.ev \in {"bind", "extract"} -> 6
      [] e.ev \in {"invoke", "settled"} -> 7
      [] OTHER -> 8

CountEv(c, e) == Cardinality({n \in 1..Len(trace[c]) : trace[c][n].ev = e})

PhasesOf(c) == {Phase(trace[c][n]) : n \in 1..Len(trace[c])} \ {8}

\* C7: the steps of one call happen in the order mint, register, resolve
\* target, look up handler, guards, bind, invoke; each happens once; a step
\* starts only when the one before has completed; none is skipped on the
\* way to the handler; after a failure nothing runs.
C7_PipelineOrder ==
    \A c \in Calls :
        LET tr == trace[c] IN
        /\ \A n \in 1..(Len(tr) - 1) : Phase(tr[n]) <= Phase(tr[n + 1])
        /\ \A n \in 1..(Len(tr) - 1) : tr[n].ev # "throw"
        /\ \A e \in {"mint", "register", "resolveTarget", "targetResolved",
                     "lookup", "guardsStart", "guardsDone", "bind", "invoke"} :
              CountEv(c, e) <= 1
        /\ \E top \in 0..7 : PhasesOf(c) = 1..top
        /\ HasEv(c, "lookup") => HasEv(c, "targetResolved")
        /\ HasEv(c, "guardsStart") => HasEv(c, "lookup")
        /\ HasEv(c, "bind") => HasEv(c, "guardsDone")
        /\ HasEv(c, "invoke") =>
              /\ HasEv(c, "bind")
              /\ CountEv(c, "extract") = Extractors(ctl[c], method[c])
        /\ cpc[c] = "done" => PhasesOf(c) = 1..7 /\ HasEv(c, "settled")
        /\ cpc[c] = "failed" <=> (tr # <<>> /\ tr[Len(tr)].ev = "throw")

\* Witness of C7: one call went through all seven steps behind guards and an
\* extractor, another failed at the handler lookup.
C7_Witness ==
    \E c, d \in Calls :
        /\ cpc[c] = "done" /\ Len(ClaimedChain(c)) = 3
        /\ Extractors(ctl[c], method[c]) = 1
        /\ cpc[d] = "failed" /\ outcome[d].kind = "HandlerNotFound"

\* C8: a call mints one context id and uses it to register the request, to
\* resolve the target and to resolve every guard; no two calls use the same
\* context id.
C8_ScopePerCall ==
    /\ \A c \in Calls :
          /\ CountEv(c, "mint") = (IF cpc[c] = "idle" THEN 0 ELSE 1)
          /\ cpc[c] # "idle" =>
                /\ contextId[c] \in ContextIds
                /\ requestOf[contextId[c]] = c
          /\ \A n \in 1..Len(trace[c]) :
                trace[c][n].ev \in {"mint", "register", "resolveTarget", "resolveGuard"}
                    => trace[c][n].ctx = contextId[c]
          /\ HasEv(c, "resolveTarget") => HasEv(c, "register")
    /\ \A c, d \in Calls :
          c # d /\ cpc[c] # "idle" /\ cpc[d] # "idle" =>
              contextId[c] # contextId[d]

\* Witness of C8: two calls are in flight at once, both resolving guards.
C8_Witness ==
    \E c, d \in Calls :
        /\ c # d
        /\ cpc[c] = "awaitGuardResolve" /\ cpc[d] = "awaitCanActivate"
        /\ gi[c] = 2

C10_HandlerNotFound ==
    \A c \in Calls :
        HasEv(c, "lookup") /\ Member(ctl[c], method[c]) \in {"absent", "field"} =>
            /\ cpc[c] = "failed"
            /\ outcome[c].kind = "HandlerNotFound"
            /\ GuardTrace(c) = <<>>
            /\ ~HasEv(c, "guardsStart")
            /\ ~HasEv(c, "bind") /\ ~HasEv(c, "extract") /\ ~HasEv(c, "invoke")

\* Witness of C10: one call named a field, another a member that does not
\* exist on a class with guards.
C10_Witness ==
    \E c, d \in Calls :
        /\ Member(ctl[c], method[c]) = "field"
        /\ outcome[c].kind = "HandlerNotFound"
        /\ Member(ctl[d], method[d]) = "absent" /\ ctl[d] = "Vault"
        /\ outcome[d].kind = "HandlerNotFound"

(***************************************************************************)
(* Claims about the handler call, checked under SpecInvoke.                *)
(***************************************************************************)

\* The binder of call c returned a list: no extractor threw.
BinderReturned(c) == HasEv(c, "guardsDone") /\ outcome[c].kind # "ExtractorError"

\* C11: when the handler is found, every guard passes and the binder has
\* produced the argument list, the handler is invoked exactly once, with
\* that bound list, and invokeNestAction ends as the handler ends: with the
\* handler's value if it returns, with the handler's own error if it throws.
\* The handler is never invoked a second time.
C11_HandlerOutcomeUnchanged ==
    \A c \in Calls :
        /\ CountEv(c, "invoke") <= 1
        /\ (Ended(c) /\ HasEv(c, "lookup") /\ BinderReturned(c))
              => CountEv(c, "invoke") = 1
        /\ HasEv(c, "invoke")
              => handlerArgs[c] =
                    resolveParamDecorators(RouteArgsMetadata(ctl[c], method[c]),
                                           rpcArgs[c], AdaptedRequest)
        /\ (Ended(c) /\ HasEv(c, "invoke"))
              => /\ produced[c] # NoOutcome
                 /\ outcome[c] = produced[c]
                 /\ (cpc[c] = "done") = (produced[c].kind = "value")

\* One handler was called with a bound list and returned, another threw.
C11_Witness ==
    \E c, d \in Calls :
        /\ cpc[c] = "done"
        /\ rpcArgs[c] = <<"a", "b">>
        /\ handlerArgs[c] = <<"extracted", "a", "b">>
        /\ outcome[c] = [kind |-> "value", src |-> "v1"]
        /\ cpc[d] = "failed"
        /\ outcome[d] = [kind |-> "HandlerError", src |-> "e1"]

(***************************************************************************)
(* Claims about the adapted request, checked under SpecInvoke.             *)
(***************************************************************************)

\* The steps of call c at which request.user is read: every canActivate
\* and every custom extractor.
Reads(c) == {x \in 1..Len(trace[c]) : trace[c][x].ev \in {"canActivate", "extract"}}

\* The steps of call c at which a guard that writes request.user passed.
Writes(c) ==
    {y \in 1..Len(trace[c]) :
        trace[c][y].ev = "guardPassed" /\ GuardWrites(trace[c][y].g)}

\* The step of the first write of call c (past the end when there is none).
FirstWrite(c) ==
    IF Writes(c) = {} THEN Len(trace[c]) + 1
    ELSE CHOOSE y \in Writes(c) : \A z \in Writes(c) : y <= z

\* C24: each call has one adapted request of its own, created with its
\* execution context and with user null; every guard and every extractor
\* of the call reads that object: null until a guard of the same call has
\* written user, the value that guard wrote afterwards, and never a value
\* written by another call, however the calls interleave.
C24_RequestPerCall ==
    \A c \in Calls :
        LET early == Cardinality({x \in Reads(c) : x < FirstWrite(c)}) IN
        /\ user[c] = NoRequest <=> ~HasEv(c, "guardsStart")
        /\ user[c] # NoRequest =>
              user[c] = IF Writes(c) # {} THEN Principal(c) ELSE NullUser
        /\ Len(observed[c]) = Cardinality(Reads(c))
        /\ \A n \in 1..Len(observed[c]) :
              observed[c][n] = IF n <= early THEN NullUser ELSE Principal(c)

\* Witness of C24: two calls in flight at once, each with a guard that read
\* null, guards that read what the first guard wrote, and an extractor that
\* read it too: each call saw its own value only.
C24_Witness ==
    /\ cpc[1] = "awaitHandler" /\ cpc[2] = "awaitHandler"
    /\ observed[1] = <<NullUser, Principal(1), Principal(1), Principal(1)>>
    /\ observed[2] = <<NullUser, Principal(2), Principal(2), Principal(2)>>

(***************************************************************************)
(* The claim about the Action marker, checked under SpecActions.           *)
(***************************************************************************)

\* C26: invokeNestAction invokes a member of the target only if it is a
\* method marked with @Action(); for the name of an unmarked or inherited
\* callable member nothing is invoked.
C26_OnlyMarkedActionsInvoked ==
    \A c \in Calls :
        HasEv(c, "invoke") =>
            /\ Member(ctl[c], method[c]) = "method"
            /\ Marked(ctl[c], method[c])

(***************************************************************************)
(* Claims about resolveParamDecorators, checked under SpecBind.            *)
(***************************************************************************)

\* C12: a method without parameter decorators is called with the caller's
\* argument list as it was given: same elements, same order, same length
\* (the empty list included).
C12_NoBindingsArgsUnchanged ==
    (bCalled /\ Len(bMetadata) = 0) => bResolved = bRpcArgs

C12_Witness ==
    /\ bCalled
    /\ Len(bMetadata) = 0
    /\ bRpcArgs = <<"a", "b">>
    /\ bResolved = <<"a", "b">>

\* The declared parameter positions, and the positions of the bound list
\* that are not declared (positions count from 0).
Declared == {bMetadata[j].index : j \in 1..Len(bMetadata)}

HighestDeclared == CHOOSE x \in Declared : \A y \in Declared : y <= x

Undeclared == {p \in 0..(Len(bResolved) - 1) : p \notin Declared}

\* The number of undeclared positions below p.
Rank(p) == Cardinality({q \in Undeclared : q < p})

FreeSlots == Cardinality({p \in 0..HighestDeclared : p \notin Declared})

\* C13: with at least one declared binding of highest index M, the
\* undeclared positions of the bound list, read in ascending order, hold the
\* caller's arguments in their order, each once, and after them undefined, and
\* that only in undeclared slots up to M left over when the caller's arguments
\* ran out.  The list has M + 1 elements plus one for each caller argument
\* that found no undeclared slot up to M.
C13_UndeclaredSlotsTakeCallerArgs ==
    (bCalled /\ Len(bMetadata) > 0) =>
        /\ Cardinality(Undeclared) >= Len(bRpcArgs)
        /\ \A p \in Undeclared :
              IF Rank(p) < Len(bRpcArgs)
              THEN bResolved[p + 1] = bRpcArgs[Rank(p) + 1]
              ELSE bResolved[p + 1] = UndefinedArg /\ p <= HighestDeclared
        /\ Len(bResolved) = HighestDeclared + 1
              + (IF Len(bRpcArgs) > FreeSlots
                 THEN Len(bRpcArgs) - FreeSlots ELSE 0)

\* A gap below the declared slot and more caller arguments than gaps.
C13_Witness ==
    /\ bCalled
    /\ Declared = {1}
    /\ bRpcArgs = <<"a", "b", "a">>
    /\ Len(bResolved) = 4

\* The entries of the metadata that declare position p.
EntriesAt(p) == {j \in 1..Len(bMetadata) : bMetadata[j].index = p}

\* What the claim says a slot declared by entry e holds.
ClaimedSlot(e) ==
    IF e.custom /\ e.factory THEN e.made
    ELSE IF e.paramType = REQUEST THEN AdaptedRequest
    ELSE UndefinedArg

\* C23: in the list resolveParamDecorators returns, a declared slot never
\* holds a caller argument; a slot declared by one decorator holds the
\* extractor's result if the decorator is a custom extractor, the adapted
\* request if it is tagged REQUEST, and undefined if it carries any other
\* tag; the caller's arguments are all found at undeclared positions.
C23_DeclaredSlotsNeverFromCaller ==
    bCalled /\ Len(bMetadata) > 0 =>
        /\ \A p \in Declared :
              /\ bResolved[p + 1] \notin ArgValues
              /\ \A j \in EntriesAt(p) :
                    Cardinality(EntriesAt(p)) = 1 =>
                        bResolved[p + 1] = ClaimedSlot(bMetadata[j])
        /\ Cardinality(Undeclared) >= Len(bRpcArgs)
        /\ \A n \in 1..Len(bRpcArgs) :
              \E p \in Undeclared : Rank(p) = n - 1 /\ bResolved[p + 1] = bRpcArgs[n]

\* Witness of C23: a slot with another contextual tag, a slot with a custom
\* extractor after it, and two caller arguments that skipped both.
C23_Witness ==
    /\ bCalled
    /\ bMetadata = << Entry(0, FALSE, FALSE, BODY, ""),
                      Entry(1, TRUE, TRUE, NaN, "extracted") >>
    /\ bRpcArgs = <<"a", "b">>
    /\ bResolved = <<UndefinedArg, "extracted", "a", "b">>

(***************************************************************************)
(* Claims about the close hook, checked under SpecBridge.                  *)
(***************************************************************************)

\* The close hooks registered for build b, by whichever invocation.
HooksFor(b) ==
    {<<i, n>> \in Invs \X (1..NInv) : n <= Len(hooked[i]) /\ hooked[i][n] = b}

\* Invocation i has begun and did not start a build: it found the
\* environment stored, or it waits (or waited) on a build of another one.
StartedNoBuild(i) ==
    /\ pc[i] # "idle"
    /\ \/ awaited[i] = 0
       \/ starter[awaited[i]] # i

C14_HookState ==
    /\ \A b \in Builds :
          Cardinality(HooksFor(b)) =
              IF stage[b] = "done" /\ pc[starter[b]] = "returned" THEN 1 ELSE 0
    /\ \A i \in Invs :
          StartedNoBuild(i) =>
              /\ hooked[i] = << >>
              /\ \A b \in Builds : starter[b] # i

C14_HookStep ==
    \A i \in Invs :
        (/\ pc'[i] # pc[i]
         /\ \/ awaited'[i] = 0
            \/ starter'[awaited'[i]] # i)
        => /\ globalThis' = globalThis
           /\ buildCount' = buildCount
           /\ hooked' = hooked
           /\ hook' = hook

\* C14: there is exactly one registered close hook for every bootstrap that
\* succeeded (registered by the invocation that ran it, when it resumes) and
\* none for any other build.  An invocation that finds the environment
\* stored, or that waits on the build of another invocation, starts no build
\* and registers no hook, and none of its steps changes the stored
\* environment or the published promise.
C14_OneHookPerSuccessfulBootstrap ==
    []C14_HookState /\ [][C14_HookStep]_vars

\* One build, three invocations: its starter, a waiter and a late one.
C14_Witness ==
    \E i, j, k \in Invs :
        /\ pc[i] = "returned" /\ pc[j] = "returned" /\ pc[k] = "returned"
        /\ buildCount = 1 /\ starter[1] = i
        /\ hooked[i] = <<1>>
        /\ awaited[j] = 1 /\ j # i
        /\ awaited[k] = 0

\* Build b is the one whose close hook ran to its end last: no build was
\* started after it.
ClosedLast(b) == hook[b] = "done" /\ buildCount = b

C15_AfterClose ==
    \A b \in Builds :
        /\ hook[b] \in {"closing", "done", "failed"} => closed[b]
        /\ ClosedLast(b) =>
              /\ globalThis[globalKey[starter[b]]] = Undefined
              /\ globalThis[promiseKey(globalKey[starter[b]])] = Undefined
              /\ getNestApp(globalKey[starter[b]]) = "throws"

C15_CloseStep ==
    /\ \A b \in Builds :
          (hook[b] # "done" /\ hook'[b] = "done") =>
              /\ closed[b]
              /\ globalThis'[globalKey[starter[b]]] = Undefined
              /\ globalThis'[promiseKey(globalKey[starter[b]])] = Undefined
    /\ \A i \in Invs :
          (pc[i] = "idle" /\ pc'[i] # "idle" /\ \E b \in Builds : ClosedLast(b))
          => /\ pc'[i] = "awaitBootstrap"
             /\ buildCount' = buildCount + 1
             /\ starter'[buildCount'] = i
             /\ awaited'[i] = buildCount'

NoTeardown == \A b \in Builds : hook[b] \in {"none", "registered"}

\* C21: while no teardown has run, every invocation that returned without
\* error, be it the starter of a build, a waiter on a build in flight or an
\* invocation of a bridge with another globalKey, finds the environment
\* stored under the globalKey of its own bridge: getNestApp(globalKey)
\* returns.
C21_ReturnedMeansStored ==
    NoTeardown =>
        \A i \in Invs :
            pc[i] = "returned" => getNestApp(globalKey[i]) = "returns"

(***************************************************************************)
(* Claims about the createNestBridge of index.ts, checked under SpecIndex. *)
(***************************************************************************)

\* The apps the invocations of the first wave stored at the globalKey.
WaveStored == {b \in WaveBuilds : everStored[b]}

\* The close hooks the invocations of the first wave registered.
WaveHooks == {h \in wave \X (1..NInv) : h[2] <= Len(hooked[h[1]])}

\* C22: when the plugin of index.ts is invoked several times before any
\* invocation completes, the build runs exactly once, at most one
\* environment is ever stored and at most one close hook is ever registered
\* (exactly one each once an invocation has returned).
C22_IndexBootstrapOnce ==
    /\ wave # {} => Cardinality(WaveBuilds) = 1
    /\ Cardinality(WaveStored) <= 1
    /\ Cardinality(WaveHooks) <= 1
    /\ (\E i \in wave : pc[i] = "returned") =>
          Cardinality(WaveStored) = 1 /\ Cardinality(WaveHooks) = 1

(***************************************************************************)
(* Claims about the call proxy, checked under SpecClient.                  *)
(***************************************************************************)

Answered(c) == rpcPc[c] \in {"awaitText", "awaitJson"} \/ response[c] # NoResponse

\* C16: when the exchange ends with a response that is not a success, the
\* call fails with an error that carries the status (text) of the response
\* and the text of its body; it returns no value and the body is never
\* decoded.  A value is returned only for a success response, and it is the
\* decoded body.
C16_NonSuccessFails ==
    \A c \in RpcCalls :
        /\ (Answered(c) /\ ~response[c].ok) =>
              /\ rpcPc[c] \in {"awaitText", "failed"}
              /\ rpcResult[c] = NoValue
              /\ ~decoded[c]
              /\ rpcPc[c] = "failed" =>
                    /\ rpcError[c].kind = "RpcFailed"
                    /\ rpcError[c].statusText = response[c].statusText
                    /\ rpcError[c].errorText = response[c].body
        /\ (decoded[c] \/ rpcPc[c] = "done") =>
              /\ response[c].ok
              /\ decoded[c]
              /\ rpcPc[c] = "done"
              /\ rpcResult[c] = handlerResult[c]

\* A call answered with 404 failed with that status and that body.
C16_Witness ==
    \E c \in RpcCalls :
        /\ rpcPc[c] = "failed"
        /\ ~response[c].ok
        /\ rpcError[c].statusText = "Controller not found"
        /\ rpcError[c].errorText = PlainText("not-found")

\* The names Angular calls on a component or service.
AngularLifecycleHooks ==
    { <<"n", "gOnInit">>, <<"n", "gOnDestroy">>, <<"n", "gOnChanges">>,
      <<"n", "gDoCheck">>, <<"n", "gAfterContentInit">>,
      <<"n", "gAfterContentChecked">>, <<"n", "gAfterViewInit">>,
      <<"n", "gAfterViewChecked">> }

\* The member is one the claim reserves.
Reserved(prop) ==
    \/ prop.sym
    \/ prop.name[1] \in {"_", "U+0275"}
    \/ prop.name \in { <<"t", "hen">>, <<"t", "oJSON">>, <<"t", "oString">>,
                       <<"c", "onstructor">>, <<"p", "rototype">> }
    \/ prop.name \in AngularLifecycleHooks

\* C17: reading a reserved member on the proxy (then, toJSON, toString,
\* constructor, prototype, an Angular lifecycle hook, a name that begins
\* with "_" or with the letter U+0275, a symbol) gives no callable and causes
\* no exchange.  Any other member is a callable, and one invocation of it
\* performs exactly one exchange, whose body names the proxy's controller,
\* the member as the action, and the encoded arguments.
C17_ReservedMembers ==
    \A c \in RpcCalls :
        rpcPc[c] # "idle" =>
            IF Reserved(rpcProp[c])
            THEN rpcPc[c] = "noCallable" /\ sent[c] = << >>
            ELSE /\ rpcPc[c] # "noCallable"
                 /\ Len(sent[c]) = 1
                 /\ sent[c][1].method = "POST"
                 /\ sent[c][1].body =
                        [controller |-> proxy.controllerName,
                         action |-> rpcProp[c].name,
                         data |-> superjsonStringify(
                                    Obj(<< Prop("args", Arr(callArgs[c])) >>))]

\* "then" was read and gave nothing.
C17_Witness ==
    \E c \in RpcCalls :
        /\ rpcProp[c] = Name("t", "hen")
        /\ rpcPc[c] = "noCallable"
        /\ sent[c] = << >>

\* C18: the endpoint of an exchange is chosen when the call is made: the
\* proxy's ssrEndpoint if no browser window exists at that moment, its
\* endpoint otherwise.  The two are configured independently: each is the
\* value given for its own key, or its own default.
C18_EndpointByEnvironment ==
    /\ \A c \in RpcCalls :
          sent[c] # << >> =>
              sent[c][1].url =
                  IF serverAt[c] THEN proxy.ssrEndpoint ELSE proxy.endpoint
    /\ proxy.created =>
          /\ proxy.endpoint =
                IF proxy.given["endpoint"] = Absent THEN DefaultEndpoint
                ELSE proxy.given["endpoint"]
          /\ proxy.ssrEndpoint =
                IF proxy.given["ssrEndpoint"] = Absent THEN DefaultSsrEndpoint
                ELSE proxy.given["ssrEndpoint"]

\* A proxy created on the server, called in a browser: its endpoint is used.
C18_Witness ==
    \E c \in RpcCalls :
        /\ proxy.serverThen
        /\ ~serverAt[c]
        /\ proxy.given["endpoint"] = "A" /\ proxy.given["ssrEndpoint"] = "B"
        /\ sent[c] # << >>
        /\ sent[c][1].url = "A"

(***************************************************************************)
(* The claim about the options, checked under SpecOptions.                 *)
(***************************************************************************)

\* An options object gives a value for the key.
Gives(o, k) == o[k] \notin {Absent, UndefinedOption}

\* What the proxy uses for a key, and the default of the key.
Used(k) ==
    CASE k = "endpoint" -> proxy.endpoint
      [] k = "ssrEndpoint" -> proxy.ssrEndpoint
      [] k = "headers" -> proxy.customHeaders
      [] OTHER -> proxy.fetchFn

DefaultOf(k) ==
    CASE k = "endpoint" -> DefaultEndpoint
      [] k = "ssrEndpoint" -> DefaultSsrEndpoint
      [] k = "headers" -> DefaultHeaders
      [] OTHER -> GlobalFetch

\* C19: for every option key the proxy uses the value given per proxy; if
\* none is given per proxy, the value given globally; if none is given
\* either way, the default.
C19_OptionsPrecedence ==
    proxy.created =>
        \A k \in OptionKeys :
            Used(k) =
                IF Gives(proxy.given, k) THEN proxy.given[k]
                ELSE IF Gives(proxy.globalThen, k) THEN proxy.globalThen[k]
                ELSE DefaultOf(k)

(***************************************************************************)
(* The claim about reconfiguration, checked under SpecReconfigure.         *)
(***************************************************************************)

\* The value of key k in the last configureRpcClient call that has the key.
LastConfigured(k) ==
    LET S == {n \in 1..Len(configured) : configured[n][k] # Absent}
    IN  IF S = {} THEN Absent
        ELSE configured[CHOOSE n \in S : \A m \in S : m <= n][k]

\* What createRpcClient reads for key k from global options g and the
\* per-proxy options o.
Effective(g, o, k) == OrDefault(Spread(g, o), k, DefaultOf(k))

\* C25 (state part): the global options hold, per key, what the last
\* configureRpcClient call with that key gave; the proxy holds what the
\* options of its creation give, and every request of a call through it
\* carries the endpoint, the headers and the transport function of its
\* creation, whatever the global options were when the call was made.
C25_OptionsState ==
    /\ \A k \in OptionKeys : globalOptions[k] = LastConfigured(k)
    /\ proxy.created =>
          \A k \in OptionKeys :
              Used(k) = Effective(proxy.globalThen, proxy.given, k)
    /\ \A c \in RpcCalls : \A n \in 1..Len(sent[c]) :
          /\ sent[c][n].url =
                Effective(proxy.globalThen, proxy.given,
                          IF serverAt[c] THEN "ssrEndpoint" ELSE "endpoint")
          /\ sent[c][n].headers.custom =
                Effective(proxy.globalThen, proxy.given, "headers")
          /\ sent[c][n].via = Effective(proxy.globalThen, proxy.given, "fetch")

\* C25 (step part): no step changes a proxy that exists, and a proxy is
\* created from the global options of the moment of its creation, all
\* earlier configureRpcClient calls included.
C25_OptionsStep ==
    /\ proxy.created => proxy' = proxy
    /\ ~proxy.created /\ proxy'.created =>
          /\ proxy'.globalThen = globalOptions
          /\ \A k \in OptionKeys : globalOptions[k] = LastConfigured(k)

\* C25: the options of a proxy are fixed when createRpcClient is called:
\* a later configureRpcClient changes nothing a call through it uses, a
\* proxy created after it uses the new global options, and successive
\* configureRpcClient calls accumulate, the later call winning per key.
C25_OptionsFixedAtCreation ==
    []C25_OptionsState /\ [][C25_OptionsStep]_vars

\* Witness of C25: configureRpcClient gave an SSR endpoint, the proxy was
\* created, a second configureRpcClient gave other endpoints, and a call
\* made after it went to the endpoint of the first.
C25_Witness ==
    \E c \in RpcCalls :
        /\ configured = << Only("ssrEndpoint", "A"),
                           [NoOptions EXCEPT !["endpoint"] = "B",
                                             !["ssrEndpoint"] = "B"] >>
        /\ proxy.created
        /\ proxy.globalThen = Only("ssrEndpoint", "A")
        /\ globalAt[c] = globalOptions
        /\ globalOptions["ssrEndpoint"] = "B"
        /\ sent[c] # << >>
        /\ sent[c][1].url = "A"

(***************************************************************************)
(* The claim about the codec, checked under SpecCodec.                     *)
(***************************************************************************)

\* C20: through the proxy, the codec, the RPC endpoint and back, the
\* handler receives arguments equal to those the caller passed and the proxy
\* returns a value equal to the handler's result, for primitives, arrays,
\* objects, Maps, Sets, Dates, bigints, and undefined as distinct from null.
C20_RoundTrip ==
    \A c \in RpcCalls :
        /\ rpcPc[c] \in {"awaitJson", "done"} => serverArgs[c] = callArgs[c]
        /\ rpcPc[c] = "done" => rpcResult[c] = handlerResult[c]

\* A Set holding a Date and undefined went to the handler and came back.
C20_Witness ==
    \E c \in RpcCalls :
        /\ rpcPc[c] = "done"
        /\ callArgs[c] = << SetOf(<<Instant, JsUndefined>>) >>
        /\ serverArgs[c] = callArgs[c]
        /\ rpcResult[c] = SetOf(<<Instant, JsUndefined>>)

====
